---------------------------- MODULE Spec2Model ----------------------------
(***************************************************************************)
(* A model of gsync, an rsync-style delta engine:                          *)
(*   Signatures  (the Signer)   reads the cache file block by block and    *)
(*                              sends one BlockSignature per block;        *)
(*   LookUpTable (the Index)    folds the signatures into weak -> list;    *)
(*   Sync        (the Matcher)  scans the source with a rolling checksum   *)
(*                              and sends Literal / Copy operations;       *)
(*   Apply       (the Applier)  rebuilds the file from the operations.     *)
(* Every goroutine is a process with a program counter; every unbuffered   *)
(* channel is a slot that holds the value a blocked sender is offering.    *)
(***************************************************************************)
EXTENDS Integers, Sequences, FiniteSets, TLC

(***************************************************************************)
(* Bounds of the model.                                                    *)
(***************************************************************************)
\* BlockSize is a package variable (6 KiB by default); the model runs it small.
BlockSize == 2
\* Longest source / cache file of the pipeline specifications.
MaxLen == 4
\* Longest byte string of the rolling-hash specification.
HashLen == 5

(***************************************************************************)
(* Program constants.                                                      *)
(***************************************************************************)
\* const mod = 1 << 16
mod == 65536
\* bufferSize := 16 * BlockSize
BufBlocks == 16

bufferSize == BufBlocks * BlockSize

\* The byte values the files are drawn from.  0 makes a short block and a
\* full block collide on the weak hash ([1] and [0,1]).
Bytes == {0, 1}
\* The byte values of the rolling-hash specification.
HashBytes == {0, 1, 255}

SeqsUpTo(A, n) == UNION {[1..k -> A] : k \in 0..n}

Min(a, b) == IF a <= b THEN a ELSE b

\* s[a..b) with Go's slice indices (0-based, half open) on a 1-based sequence.
Slice(s, a, b) == [i \in 1..(b - a) |-> s[a + i]]

(***************************************************************************)
(* uint32 arithmetic.  x is the mathematical value of an expression whose  *)
(* Go operands are uint32; the Go result is x modulo 2^32 and U32Rem gives *)
(* that result modulo m (2^32 itself is not written out: 2^32 mod m is     *)
(* (2^16 mod m)^2 mod m).                                                  *)
(***************************************************************************)
\* A subtraction that stops at zero where uint32 wraps.
U32RemNoWrap(x, m) == IF x >= 0 THEN x % m ELSE 0

U32Rem(x, m) ==
    IF x >= 0 THEN x % m
    ELSE ((x % m) + (((65536 % m) * (65536 % m)) % m)) % m

RECURSIVE SumA(_)
SumA(block) ==
    IF block = <<>> THEN 0 ELSE Head(block) + SumA(Tail(block))

\* sum over index of (l - index) * value, l = len(block)
RECURSIVE SumB(_)
SumB(block) ==
    IF block = <<>> THEN 0 ELSE Len(block) * Head(block) + SumB(Tail(block))

\* A variant of the full-block checksum that weighs the bytes l - index + 1.
rollingHashPlusOne(block) ==
    LET a  == SumA(block)
        b  == SumB(block) + SumA(block)
        x1 == U32Rem(a, mod)
        x2 == U32Rem(b, mod)
    IN  <<x1, x2, x1 + (mod * x2)>>

\* rollingHash(block) returns (r1, r2, r).
rollingHash(block) ==
    LET a  == SumA(block)
        b  == SumB(block)
        x1 == U32Rem(a, mod)
        x2 == U32Rem(b, mod)
    IN  <<x1, x2, x1 + (mod * x2)>>

\* rollingHash2(l, r1, r2, outgoingValue, incomingValue) returns (r1, r2, r).
rollingHash2(l, x1, x2, outgoingValue, incomingValue) ==
    LET y1 == U32Rem(x1 - outgoingValue + incomingValue, mod)
        y2 == U32Rem(x2 - (l * outgoingValue) + y1, mod)
    IN  <<y1, y2, y1 + (mod * y2)>>

\* The r1 and r2 of rollingHash2 alone:
\* r1 = (r1 - outgoingValue + incomingValue) % mod
\* r2 = (r2 - (l * outgoingValue) + r1) % mod
rollingSums2(l, x1, x2, outgoingValue, incomingValue) ==
    LET y1 == U32Rem(x1 - outgoingValue + incomingValue, mod)
        y2 == U32Rem(x2 - (l * outgoingValue) + y1, mod)
    IN  <<y1, y2>>

\* The single-valued rollingHash the Signer calls: weights (l - i + 1) with
\* l = len(block) - 1.
RECURSIVE SumB1(_, _)
SumB1(block, l) ==
    IF block = <<>> THEN 0
    ELSE ((l - (l + 1 - Len(block))) + 1) * Head(block) + SumB1(Tail(block), l)

rollingHashWeak(block) ==
    LET l  == Len(block) - 1
        a  == SumA(block)
        b  == SumB1(block, l)
        x1 == U32Rem(a, mod)
        x2 == U32Rem(b, mod)
    IN  x1 + (mod * x2)

\* The strong hash (hash.Hash Reset, Write, Sum) is taken collision free:
\* a digest is represented by the bytes it was computed from.
strongSum(block) == block


\* Most read errors the Signer's reader reports in one run.
MaxReadErrs == 1

DefaultBlockSize == BlockSize

VARIABLES
    \* the two files and the shared context
    src, cache, ctxDone,
    \* Signatures: the goroutine's position and locals, its reader's position
    spc, index, cpos, readErrs,
    \* the signature channel: the record a blocked send offers, closed flag,
    \* and the history of the records sent
    sigCh, sigClosed, sigLog,
    \* LookUpTable: position, the record received, the table, the error returned
    lpc, lc, table, lerr,
    \* Sync: the goroutine's position and locals, its reader's position
    mpc, buffer, offset, max, delta, r1, r2, rhash, old, rolling, err, left,
    spos, mcopy,
    \* how many weak and strong hashes Sync has computed
    weakCalls, strongCalls,
    \* the operation channel, the history of the operations sent, and for
    \* each of them the memory its Data points to
    opsCh, opsClosed, opsLog, payloads,
    \* Apply: position, the operation received, the destination, the result
    apc, ao, dst, aret,
    \* the rolling-hash harness: the byte string, window length, window start,
    \* and the (r1, r2, r) carried from step to step
    hpc, hblock, hl, hk, hr,
    \* the scratch-buffer pool: the buffers it holds, how many buffers exist,
    \* and the invocations of the pooled Signatures and Apply
    pool, nbuf, calls,
    \* history: how many source reads and how many sends Sync has made since
    \* it last looked at ctx.Done()
    sinceCheck

envVars == <<src, cache, ctxDone>>
sigVars == <<spc, index, cpos, readErrs>>
sigChVars == <<sigCh, sigClosed, sigLog>>
lutVars == <<lpc, lc, table, lerr>>
syncVars == <<mpc, buffer, offset, max, delta, r1, r2, rhash, old, rolling,
              err, left, spos, mcopy, weakCalls, strongCalls>>
opsChVars == <<opsCh, opsClosed, opsLog, payloads>>
applyVars == <<apc, ao, dst, aret>>
hashVars == <<hpc, hblock, hl, hk, hr>>
poolVars == <<pool, nbuf, calls>>
histVars == <<sinceCheck>>

vars == <<envVars, sigVars, sigChVars, lutVars, syncVars, opsChVars,
          applyVars, hashVars, poolVars, histVars>>

(***************************************************************************)
(* Records.                                                                *)
(***************************************************************************)
\* BlockSignature{Index, Strong, Weak, Error}
BlockSignature(i, strong, weak, e) ==
    [Index |-> i, Strong |-> strong, Weak |-> weak, Error |-> e]

\* BlockOperation{Index, Data, Error}
BlockOperation(i, data, e) == [Index |-> i, Data |-> data, Error |-> e]

NoSignature == BlockSignature(0, <<>>, 0, "nil")
NoOperation == BlockOperation(0, <<>>, "nil")

(***************************************************************************)
(* The rolling-hash harness: rollingHash on the first window, then         *)
(* rollingHash2 one byte at a time, as TestRollingHash drives them.        *)
(***************************************************************************)
HashIdle ==
    /\ hpc = "off" /\ hblock = <<>> /\ hl = 0 /\ hk = 0 /\ hr = <<0, 0, 0>>

\* var bufferPool = sync.Pool{New: ...}: empty, no buffer made, nothing called
PoolIdle == pool = <<>> /\ nbuf = 0 /\ calls = <<>>

\* Nothing read and nothing sent yet.
NoHistory == sinceCheck = [reads |-> 0, sends |-> 0]

\* The history kept along a step of Sync: the select at the head of the loop
\* starts the count again, r.Read and o <- add one (counted up to two).
Track ==
    LET base == IF mpc = "select" THEN [reads |-> 0, sends |-> 0]
                ELSE sinceCheck
        rd   == IF spos' # spos \/ err' # err THEN 1 ELSE 0
        sn   == IF Len(opsLog') > Len(opsLog) THEN 1 ELSE 0
    IN  sinceCheck' = [reads |-> Min(base.reads + rd, 2),
                       sends |-> Min(base.sends + sn, 2)]

HashFresh ==
    /\ hpc = "fresh"
    /\ hr' = rollingHash(Slice(hblock, hk, hk + hl))
    /\ hpc' = "rolling"
    /\ UNCHANGED <<hblock, hl, hk>>

HashRoll ==
    /\ hpc = "rolling"
    /\ hk + hl < Len(hblock)
    /\ hr' = rollingHash2(hl, hr[1], hr[2], hblock[hk + 1], hblock[hk + hl + 1])
    /\ hk' = hk + 1
    /\ UNCHANGED <<hpc, hblock, hl>>

(***************************************************************************)
(* Signatures.                                                             *)
(***************************************************************************)
\* What r.Read(buffer) may return, as [n, err, adv]: n bytes delivered, the
\* error, and how far the reader moved.  "full" is bytes.Reader; "any" is any
\* io.Reader: short reads, the last bytes together with io.EOF, read errors.
SignerReads(kind) ==
    LET rem == Len(cache) - cpos
        all == Min(BlockSize, rem)
    IN  IF rem = 0 THEN {[n |-> 0, err |-> "EOF", adv |-> 0]}
        ELSE IF kind = "full" THEN {[n |-> all, err |-> "nil", adv |-> all]}
        ELSE {[n |-> k, err |-> "nil", adv |-> k] : k \in 1..all}
             \cup (IF rem <= BlockSize
                   THEN {[n |-> rem, err |-> "EOF", adv |-> rem]} ELSE {})
             \cup (IF readErrs < MaxReadErrs
                   THEN {[n |-> 0, err |-> "read", adv |-> k] : k \in {0, all}}
                   ELSE {})

\* for { select { case <-ctx.Done(): c <- {Index, Error}; return  default: } ...
SigSelect ==
    /\ spc = "select"
    /\ sigCh = <<>>
    /\ IF ctxDone
       THEN /\ sigCh' = <<BlockSignature(index, <<>>, 0, "ctx")>>
            /\ sigLog' = Append(sigLog, BlockSignature(index, <<>>, 0, "ctx"))
            /\ spc' = "exit"
       ELSE /\ spc' = "read"
            /\ UNCHANGED <<sigCh, sigLog>>
    /\ UNCHANGED <<index, cpos, readErrs, sigClosed>>

\* n, err := r.Read(buffer); EOF ends the loop, an error is sent in band,
\* otherwise the block buffer[:n] is signed and sent.
SigRead(kind) ==
    /\ spc = "read"
    /\ \E res \in SignerReads(kind) :
        LET block == Slice(cache, cpos, cpos + res.n)
            sig   == IF res.err = "nil"
                     THEN BlockSignature(index, strongSum(block),
                                         rollingHashWeak(block), "nil")
                     ELSE BlockSignature(index, <<>>, 0, "read")
        IN  /\ cpos' = cpos + res.adv
            /\ IF res.err = "EOF"
               THEN /\ spc' = "exit"
                    /\ UNCHANGED <<sigCh, sigLog, readErrs>>
               ELSE /\ sigCh' = <<sig>>
                    /\ sigLog' = Append(sigLog, sig)
                    /\ spc' = "sent"
                    /\ readErrs' = IF res.err = "read" THEN readErrs + 1
                                   ELSE readErrs
    /\ UNCHANGED <<index, sigClosed>>

\* A Signer whose error path continues before the index is advanced.
SigSentErrorKeepsIndex ==
    /\ spc = "sent"
    /\ sigCh = <<>>
    /\ index' = IF sigLog[Len(sigLog)].Error = "nil" THEN index + 1 ELSE index
    /\ spc' = "select"
    /\ UNCHANGED <<cpos, readErrs, sigChVars>>

\* index++ once the send has completed
SigSent ==
    /\ spc = "sent"
    /\ sigCh = <<>>
    /\ index' = index + 1
    /\ spc' = "select"
    /\ UNCHANGED <<cpos, readErrs, sigChVars>>

\* defer close(c)
SigExit ==
    /\ spc = "exit"
    /\ sigCh = <<>>
    /\ sigClosed' = TRUE
    /\ spc' = "done"
    /\ UNCHANGED <<index, cpos, readErrs, sigCh, sigLog>>

(***************************************************************************)
(* LookUpTable.                                                            *)
(***************************************************************************)
\* An insertion that puts the new record at the head of its bucket.
TableAddFront(t, c) ==
    [k \in (DOMAIN t) \cup {c.Weak} |->
        IF k = c.Weak
        THEN (IF k \in DOMAIN t THEN <<c>> \o t[k] ELSE <<c>>)
        ELSE t[k]]

\* table[c.Weak] = append(table[c.Weak], c)
TableAdd(t, c) ==
    [k \in (DOMAIN t) \cup {c.Weak} |->
        IF k = c.Weak
        THEN (IF k \in DOMAIN t THEN Append(t[k], c) ELSE <<c>>)
        ELSE t[k]]

\* for c := range bc: receive the next record, or leave the loop on close
LutRecv ==
    /\ lpc = "range"
    /\ \/ /\ sigCh # <<>>
          /\ lc' = Head(sigCh)
          /\ sigCh' = <<>>
          /\ lpc' = "body"
          /\ UNCHANGED <<table, lerr>>
       \/ /\ sigCh = <<>>
          /\ sigClosed
          /\ lpc' = "done"
          /\ lerr' = "nil"
          /\ UNCHANGED <<lc, table, sigCh>>
    /\ UNCHANGED <<sigClosed, sigLog>>

\* A loop body that inserts the record before it looks at the context.
LutBodyAddsFirst ==
    /\ lpc = "body"
    /\ table' = IF lc.Error # "nil" THEN table ELSE TableAdd(table, lc)
    /\ IF ctxDone
       THEN /\ lpc' = "done"
            /\ lerr' = "ctx"
       ELSE /\ lpc' = "range"
            /\ UNCHANGED lerr
    /\ UNCHANGED lc

\* the loop body: cancellation check, skip of error records, insertion
LutBody ==
    /\ lpc = "body"
    /\ IF ctxDone
       THEN /\ lpc' = "done"
            /\ lerr' = "ctx"
            /\ UNCHANGED table
       ELSE /\ lpc' = "range"
            /\ table' = IF lc.Error # "nil" THEN table ELSE TableAdd(table, lc)
            /\ UNCHANGED lerr
    /\ UNCHANGED lc


(***************************************************************************)
(* Sync (the buffered io.Reader Matcher).  remote is the table LookUpTable *)
(* returned.  A goroutine that offers a value on the unbuffered channel    *)
(* stays blocked until the value is taken, so every step needs opsCh empty.*)
(***************************************************************************)
\* What r.Read(buffer[left:]) may return for a slice of `space` bytes, as
\* [n, err].  "full" is bytes.Reader; "any" is any error-free io.Reader;
\* "faulty" may also fail; "coarse" delivers one byte or all it can;
\* "split" does so too and may hand the last bytes over together with io.EOF.
SourceReads(kind, space) ==
    LET rem == Len(src) - spos
        all == Min(space, rem)
    IN  IF rem = 0 THEN
            {[n |-> 0, err |-> "EOF"]}
            \cup (IF kind = "faulty" THEN {[n |-> 0, err |-> "read"]} ELSE {})
        ELSE IF space = 0 THEN {[n |-> 0, err |-> "nil"]}
        ELSE IF kind = "full" THEN {[n |-> all, err |-> "nil"]}
        ELSE IF kind = "coarse" THEN {[n |-> k, err |-> "nil"] : k \in {1, all}}
        ELSE IF kind = "split" THEN
            {[n |-> k, err |-> "nil"] : k \in {1, all}}
            \cup (IF rem <= space THEN {[n |-> rem, err |-> "EOF"]} ELSE {})
        ELSE {[n |-> k, err |-> "nil"] : k \in 1..all}
             \cup (IF rem <= space THEN {[n |-> rem, err |-> "EOF"]} ELSE {})
             \cup (IF kind = "faulty" THEN {[n |-> 0, err |-> "read"]} ELSE {})

\* a slice expression buffer[a:b] panics unless 0 <= a <= b <= cap
SliceOk(a, b) == 0 <= a /\ a <= b /\ b <= bufferSize

\* The memory behind the Data of an operation sent: the bytes it holds now,
\* the buffer offset they were taken from (-1: none), and whether the slice
\* shares the buffer's array (a write to the buffer is then seen through it).
Payload(bytes, at, shared) == [bytes |-> bytes, at |-> at, shared |-> shared]

\* what the payloads hold once the buffer holds buf
Seen(pl, buf) ==
    [i \in DOMAIN pl |->
        IF pl[i].shared
        THEN [pl[i] EXCEPT !.bytes = [k \in 1..Len(pl[i].bytes) |->
                                         buf[pl[i].at + k]]]
        ELSE pl[i]]

\* o <- op, for an operation without Data
Send(op) ==
    /\ opsCh' = <<op>>
    /\ opsLog' = Append(opsLog, op)
    /\ payloads' = Append(payloads, Payload(op.Data, -1, FALSE))
    /\ UNCHANGED opsClosed

\* A literal whose Data is the slice buffer[a:b] itself.
SendLiteralAlias(a, b, next) ==
    IF SliceOk(a, b)
    THEN /\ opsCh' = <<BlockOperation(0, Slice(buffer, a, b), "nil")>>
         /\ opsLog' = Append(opsLog,
                             BlockOperation(0, Slice(buffer, a, b), "nil"))
         /\ payloads' = Append(payloads, Payload(Slice(buffer, a, b), a, TRUE))
         /\ mpc' = next
         /\ UNCHANGED opsClosed
    ELSE /\ mpc' = "panic"
         /\ UNCHANGED opsChVars

\* o <- BlockOperation{Data: append([]byte(nil), buffer[a:b]...)}: the Data
\* is a new array holding a copy of buffer[a:b]
SendLiteral(a, b, next) ==
    IF SliceOk(a, b)
    THEN /\ opsCh' = <<BlockOperation(0, Slice(buffer, a, b), "nil")>>
         /\ opsLog' = Append(opsLog,
                             BlockOperation(0, Slice(buffer, a, b), "nil"))
         /\ payloads' = Append(payloads, Payload(Slice(buffer, a, b), a, FALSE))
         /\ mpc' = next
         /\ UNCHANGED opsClosed
    ELSE /\ mpc' = "panic"
         /\ UNCHANGED opsChVars

\* left := BlockSize; if max-offset < BlockSize { left = max - offset }
WindowLen == IF max - offset < BlockSize THEN max - offset ELSE BlockSize

\* for _, b := range bs { if !bytes.Equal(s, b.Strong) { continue } ... break }
\* the position in bs of the entry the loop stops at, 0 when it runs out
RECURSIVE FirstMatchFrom(_, _, _)
FirstMatchFrom(bs, s, i) ==
    IF i > Len(bs) THEN 0
    ELSE IF bs[i].Strong = s THEN i
    ELSE FirstMatchFrom(bs, s, i + 1)

\* A search that takes the first entry of the bucket on the weak hash alone.
FirstMatchWeakOnly(bs, s) == IF Len(bs) > 0 THEN 1 ELSE 0

\* A search that keeps going after a hit and so ends on the last equal entry.
LastMatch(bs, s) ==
    IF \E i \in 1..Len(bs) : bs[i].Strong = s
    THEN CHOOSE i \in 1..Len(bs) :
            /\ bs[i].Strong = s
            /\ \A j \in (i + 1)..Len(bs) : bs[j].Strong # s
    ELSE 0

FirstMatch(bs, s) == FirstMatchFrom(bs, s, 1)

\* A refill that keeps only the window, not the pending literal run.
RefillStartNoDelta == offset

\* copy(buffer[:], buffer[offset-delta:max]): where the bytes kept by a refill
\* start
RefillStart == offset - delta

\* A matcher without the no-signatures shortcut.
NoRemoteNever == FALSE

\* len(remote) == 0
NoRemote == Cardinality(DOMAIN table) = 0

\* A loop head that does not look at the context.
SyncSelectNoCancel ==
    /\ mpc = "select"
    /\ lpc = "done"
    /\ opsCh = <<>>
    /\ mpc' = "fill"
    /\ UNCHANGED <<buffer, offset, max, delta, r1, r2, rhash, old, rolling,
                   err, left, spos, mcopy, weakCalls, strongCalls, opsChVars>>

\* select { case <-ctx.Done(): o <- BlockOperation{Error}; return  default: }
SyncSelect ==
    /\ mpc = "select"
    /\ lpc = "done"
    /\ opsCh = <<>>
    /\ IF ctxDone
       THEN /\ Send(BlockOperation(0, <<>>, "ctx"))
            /\ mpc' = "exit"
       ELSE /\ mpc' = "fill"
            /\ UNCHANGED opsChVars
    /\ UNCHANGED <<buffer, offset, max, delta, r1, r2, rhash, old, rolling,
                   err, left, spos, mcopy, weakCalls, strongCalls>>

\* for offset > max-BlockSize { if err == io.EOF { left := max - offset + delta
SyncDrainStart ==
    /\ mpc = "fill"
    /\ opsCh = <<>>
    /\ offset > max - BlockSize
    /\ err = "EOF"
    /\ left' = max - offset + delta
    /\ mpc' = "drain"
    /\ UNCHANGED <<buffer, offset, max, delta, r1, r2, rhash, old, rolling,
                   err, spos, mcopy, weakCalls, strongCalls, opsChVars>>

\* A refill whose error path sends the error record and, lacking the return,
\* goes round the loop again.
SyncReadNoReturn(kind) ==
    /\ mpc = "fill"
    /\ opsCh = <<>>
    /\ offset > max - BlockSize
    /\ err # "EOF"
    /\ IF ~SliceOk(RefillStart, max)
       THEN /\ mpc' = "panic"
            /\ UNCHANGED <<buffer, offset, max, err, spos, opsChVars>>
       ELSE LET lft     == max - RefillStart
                shifted == [i \in 1..bufferSize |->
                               IF i <= lft THEN buffer[RefillStart + i]
                               ELSE buffer[i]]
            IN  \E res \in SourceReads(kind, bufferSize - lft) :
                    /\ buffer' = [i \in 1..bufferSize |->
                                     IF lft < i /\ i <= lft + res.n
                                     THEN src[spos + (i - lft)]
                                     ELSE shifted[i]]
                    /\ spos' = spos + res.n
                    /\ err' = res.err
                    /\ IF res.err = "read"
                       THEN /\ opsCh' = <<BlockOperation(0, <<>>, "read")>>
                            /\ opsLog' = Append(opsLog,
                                             BlockOperation(0, <<>>, "read"))
                            /\ payloads' = Append(Seen(payloads, buffer'),
                                                  Payload(<<>>, -1, FALSE))
                            /\ mpc' = "select"
                            /\ UNCHANGED <<offset, max, opsClosed>>
                       ELSE /\ offset' = delta
                            /\ max' = lft + res.n
                            /\ mpc' = "fill"
                            /\ payloads' = Seen(payloads, buffer')
                            /\ UNCHANGED <<opsCh, opsClosed, opsLog>>
    /\ UNCHANGED <<delta, r1, r2, rhash, old, rolling, left, mcopy,
                   weakCalls, strongCalls>>

\* the refill: left := copy(buffer[:], buffer[offset-delta:max]);
\* n, err = r.Read(buffer[left:]); offset = delta; max = left + n
SyncRead(kind) ==
    /\ mpc = "fill"
    /\ opsCh = <<>>
    /\ offset > max - BlockSize
    /\ err # "EOF"
    /\ IF ~SliceOk(RefillStart, max)
       THEN /\ mpc' = "panic"
            /\ UNCHANGED <<buffer, offset, max, err, spos, opsChVars>>
       ELSE LET lft     == max - RefillStart
                shifted == [i \in 1..bufferSize |->
                               IF i <= lft THEN buffer[RefillStart + i]
                               ELSE buffer[i]]
            IN  \E res \in SourceReads(kind, bufferSize - lft) :
                    /\ buffer' = [i \in 1..bufferSize |->
                                     IF lft < i /\ i <= lft + res.n
                                     THEN src[spos + (i - lft)]
                                     ELSE shifted[i]]
                    /\ spos' = spos + res.n
                    /\ err' = res.err
                    /\ IF res.err = "read"
                       THEN /\ opsCh' = <<BlockOperation(0, <<>>, "read")>>
                            /\ opsLog' = Append(opsLog,
                                             BlockOperation(0, <<>>, "read"))
                            /\ payloads' = Append(Seen(payloads, buffer'),
                                                  Payload(<<>>, -1, FALSE))
                            /\ mpc' = "exit"
                            /\ UNCHANGED <<offset, max, opsClosed>>
                       ELSE /\ offset' = delta
                            /\ max' = lft + res.n
                            /\ mpc' = "fill"
                            /\ payloads' = Seen(payloads, buffer')
                            /\ UNCHANGED <<opsCh, opsClosed, opsLog>>
    /\ UNCHANGED <<delta, r1, r2, rhash, old, rolling, left, mcopy,
                   weakCalls, strongCalls>>

\* if len(remote) == 0 { for max-offset >= BlockSize { ... } continue }
SyncNoRemote ==
    /\ mpc = "fill"
    /\ opsCh = <<>>
    /\ offset <= max - BlockSize
    /\ NoRemote
    /\ mpc' = "nocache"
    /\ UNCHANGED <<buffer, offset, max, delta, r1, r2, rhash, old, rolling,
                   err, left, spos, mcopy, weakCalls, strongCalls, opsChVars>>

SyncNoCache ==
    /\ mpc = "nocache"
    /\ opsCh = <<>>
    /\ IF max - offset >= BlockSize
       THEN SendLiteral(offset, offset + BlockSize, "nocacheSent")
       ELSE /\ mpc' = "select"
            /\ UNCHANGED opsChVars
    /\ UNCHANGED <<buffer, offset, max, delta, r1, r2, rhash, old, rolling,
                   err, left, spos, mcopy, weakCalls, strongCalls>>

SyncNoCacheSent ==
    /\ mpc = "nocacheSent"
    /\ opsCh = <<>>
    /\ offset' = offset + BlockSize
    /\ mpc' = "nocache"
    /\ UNCHANGED <<buffer, max, delta, r1, r2, rhash, old, rolling,
                   err, left, spos, mcopy, weakCalls, strongCalls, opsChVars>>

\* The window buffer[offset:offset+left] is hashed (from scratch, or rolled
\* from the previous window), looked up by weak hash and confirmed by strong
\* hash; without a match the window slides by one byte.
SyncHash ==
    /\ mpc = "fill"
    /\ opsCh = <<>>
    /\ offset <= max - BlockSize
    /\ ~NoRemote
    /\ LET lft   == WindowLen
           block == Slice(buffer, offset, offset + lft)
           h     == IF rolling
                    THEN rollingHash2(lft, r1, r2, old, buffer[offset + lft])
                    ELSE rollingHash(block)
           hit   == h[3] \in DOMAIN table
           m     == IF hit THEN FirstMatch(table[h[3]], strongSum(block)) ELSE 0
       IN  /\ r1' = h[1]
           /\ r2' = h[2]
           /\ rhash' = h[3]
           /\ weakCalls' = weakCalls + 1
           /\ strongCalls' = IF hit THEN strongCalls + 1 ELSE strongCalls
           /\ IF m # 0
              THEN /\ mcopy' = table[h[3]][m].Index
                   /\ IF delta > 0
                      THEN SendLiteral(offset - delta, offset, "deltaSent")
                      ELSE /\ Send(BlockOperation(table[h[3]][m].Index,
                                                  <<>>, "nil"))
                           /\ mpc' = "copySent"
                   /\ UNCHANGED <<rolling, old, delta, offset>>
              ELSE /\ rolling' = TRUE
                   /\ old' = buffer[offset + 1]
                   /\ delta' = delta + 1
                   /\ offset' = offset + 1
                   /\ IF delta + 1 >= BlockSize
                      THEN SendLiteral((offset + 1) - (delta + 1),
                                       (offset + 1) - (delta + 1) + BlockSize,
                                       "flushSent")
                      ELSE /\ mpc' = "select"
                           /\ UNCHANGED opsChVars
                   /\ UNCHANGED mcopy
    /\ UNCHANGED <<buffer, max, err, left, spos>>

\* A match step that sends the Copy without clearing delta.
SyncDeltaSentKeepsDelta ==
    /\ mpc = "deltaSent"
    /\ opsCh = <<>>
    /\ Send(BlockOperation(mcopy, <<>>, "nil"))
    /\ mpc' = "copySent"
    /\ UNCHANGED <<buffer, offset, max, delta, r1, r2, rhash, old, rolling,
                   err, left, spos, mcopy, weakCalls, strongCalls>>

\* delta = 0, then o <- BlockOperation{Index: b.Index}
SyncDeltaSent ==
    /\ mpc = "deltaSent"
    /\ opsCh = <<>>
    /\ delta' = 0
    /\ Send(BlockOperation(mcopy, <<>>, "nil"))
    /\ mpc' = "copySent"
    /\ UNCHANGED <<buffer, offset, max, r1, r2, rhash, old, rolling,
                   err, left, spos, mcopy, weakCalls, strongCalls>>

\* if match { rolling, match = false, false; old, rhash, r1, r2 = 0, 0, 0, 0;
\*            offset += left }
SyncCopySent ==
    /\ mpc = "copySent"
    /\ opsCh = <<>>
    /\ rolling' = FALSE
    /\ old' = 0
    /\ rhash' = 0
    /\ r1' = 0
    /\ r2' = 0
    /\ offset' = offset + WindowLen
    /\ mpc' = "select"
    /\ UNCHANGED <<buffer, max, delta, err, left, spos, mcopy,
                   weakCalls, strongCalls, opsChVars>>

\* A flush that sends the literal and leaves delta as it is.
SyncFlushSentKeepsDelta ==
    /\ mpc = "flushSent"
    /\ opsCh = <<>>
    /\ mpc' = "select"
    /\ UNCHANGED <<buffer, offset, max, delta, r1, r2, rhash, old, rolling,
                   err, left, spos, mcopy, weakCalls, strongCalls, opsChVars>>

\* if delta >= BlockSize { o <- ...; delta -= BlockSize }
SyncFlushSent ==
    /\ mpc = "flushSent"
    /\ opsCh = <<>>
    /\ delta' = delta - BlockSize
    /\ mpc' = "select"
    /\ UNCHANGED <<buffer, offset, max, r1, r2, rhash, old, rolling,
                   err, left, spos, mcopy, weakCalls, strongCalls, opsChVars>>

\* A drain that sends the trailing literal without the test left > 0.
SyncDrainSendsEmpty ==
    /\ mpc = "drain"
    /\ opsCh = <<>>
    /\ IF left >= BlockSize
       THEN SendLiteral(max - left, max - left + BlockSize, "drainSent")
       ELSE SendLiteral(max - left, max, "exit")
    /\ UNCHANGED <<buffer, offset, max, delta, r1, r2, rhash, old, rolling,
                   err, left, spos, mcopy, weakCalls, strongCalls>>

\* for left >= BlockSize { o <- ...; left -= BlockSize }
\* if left > 0 { o <- ... }; return
SyncDrain ==
    /\ mpc = "drain"
    /\ opsCh = <<>>
    /\ IF left >= BlockSize
       THEN SendLiteral(max - left, max - left + BlockSize, "drainSent")
       ELSE IF left > 0
       THEN SendLiteral(max - left, max, "exit")
       ELSE /\ mpc' = "exit"
            /\ UNCHANGED opsChVars
    /\ UNCHANGED <<buffer, offset, max, delta, r1, r2, rhash, old, rolling,
                   err, left, spos, mcopy, weakCalls, strongCalls>>

SyncDrainSent ==
    /\ mpc = "drainSent"
    /\ opsCh = <<>>
    /\ left' = left - BlockSize
    /\ mpc' = "drain"
    /\ UNCHANGED <<buffer, offset, max, delta, r1, r2, rhash, old, rolling,
                   err, spos, mcopy, weakCalls, strongCalls, opsChVars>>

\* A return of Sync's goroutine without the deferred close(o).
SyncExitNoClose ==
    /\ mpc = "exit"
    /\ opsCh = <<>>
    /\ mpc' = "done"
    /\ UNCHANGED <<buffer, offset, max, delta, r1, r2, rhash, old, rolling,
                   err, left, spos, mcopy, weakCalls, strongCalls,
                   opsCh, opsClosed, opsLog, payloads>>

\* defer func() { close(o) }()
SyncExit ==
    /\ mpc = "exit"
    /\ opsCh = <<>>
    /\ opsClosed' = TRUE
    /\ mpc' = "done"
    /\ UNCHANGED <<buffer, offset, max, delta, r1, r2, rhash, old, rolling,
                   err, left, spos, mcopy, weakCalls, strongCalls,
                   opsCh, opsLog, payloads>>

(***************************************************************************)
(* Apply.                                                                  *)
(***************************************************************************)
\* A cache read that takes io.EOF for a failure: a short block yields nothing.
ReadAtFullOnly(off) ==
    IF off + BlockSize > Len(cache) THEN <<>>
    ELSE Slice(cache, off, off + BlockSize)

\* cache.ReadAt(buffer, index * DefaultBlockSize): the bytes read
ReadAt(off) ==
    IF off >= Len(cache) THEN <<>>
    ELSE Slice(cache, off, Min(off + BlockSize, Len(cache)))

\* An applier that does not look at the operation's Error.
OpFailedNever(op) == FALSE

\* if o.Error != nil
OpFailed(op) == op.Error # "nil"

\* What the cache read and the destination write of one operation may do.
ApplyOutcomes(faulty) ==
    {"ok"} \cup (IF faulty THEN {"cacheError", "writeError"} ELSE {})

\* for o := range ops: receive the next operation, or return nil on close
ApplyRecv ==
    /\ apc = "range"
    /\ \/ /\ opsCh # <<>>
          /\ ao' = Head(opsCh)
          /\ opsCh' = <<>>
          /\ apc' = "body"
          /\ UNCHANGED <<dst, aret>>
       \/ /\ opsCh = <<>>
          /\ opsClosed
          /\ apc' = "done"
          /\ aret' = "nil"
          /\ UNCHANGED <<ao, dst, opsCh>>
    /\ UNCHANGED <<opsClosed, opsLog, payloads>>

\* the loop body: cancellation check, error operation, Literal or Copy, write
ApplyBody(faulty) ==
    /\ apc = "body"
    /\ IF ctxDone
       THEN /\ apc' = "done"
            /\ aret' = "ctx"
            /\ UNCHANGED dst
       ELSE IF OpFailed(ao)
       THEN /\ apc' = "done"
            /\ aret' = "op"
            /\ UNCHANGED dst
       ELSE \E out \in ApplyOutcomes(faulty) :
            LET copy  == Len(ao.Data) = 0
                block == IF copy THEN ReadAt(ao.Index * DefaultBlockSize)
                         ELSE ao.Data
            IN  IF out = "cacheError" /\ copy
                THEN /\ apc' = "done"
                     /\ aret' = "cache"
                     /\ UNCHANGED dst
                ELSE IF out = "writeError"
                THEN /\ \E k \in 0..Len(block) :
                            /\ k < Len(block) \/ k = 0
                            /\ dst' = dst \o SubSeq(block, 1, k)
                     /\ apc' = "done"
                     /\ aret' = "write"
                ELSE /\ dst' = dst \o block
                     /\ apc' = "range"
                     /\ UNCHANGED aret
    /\ UNCHANGED ao

\* the context is cancelled (by the caller, or by its deadline)
Cancel ==
    /\ ~ctxDone
    /\ ctxDone' = TRUE
    /\ UNCHANGED <<src, cache>>


(***************************************************************************)
(* Initial states.                                                         *)
(***************************************************************************)
Files == SeqsUpTo(Bytes, MaxLen)

SigInit ==
    /\ spc = "select" /\ index = 0 /\ cpos = 0 /\ readErrs = 0
    /\ sigCh = <<>> /\ sigClosed = FALSE /\ sigLog = <<>>

LutInit ==
    /\ lpc = "range" /\ lc = NoSignature /\ table = <<>> /\ lerr = "none"

SyncLocalsInit ==
    /\ buffer = [i \in 1..bufferSize |-> 0]
    /\ offset = 0 /\ max = 0 /\ delta = 0
    /\ r1 = 0 /\ r2 = 0 /\ rhash = 0 /\ old = 0
    /\ rolling = FALSE /\ err = "nil" /\ left = 0 /\ spos = 0 /\ mcopy = 0
    /\ weakCalls = 0 /\ strongCalls = 0

OpsChInit ==
    opsCh = <<>> /\ opsClosed = FALSE /\ opsLog = <<>> /\ payloads = <<>>

SyncInit == mpc = "select" /\ SyncLocalsInit /\ OpsChInit

ApplyInit ==
    /\ apc = "range" /\ ao = NoOperation /\ dst = <<>> /\ aret = "none"

\* stages that a specification leaves out
SigOff ==
    /\ spc = "off" /\ index = 0 /\ cpos = 0 /\ readErrs = 0
    /\ sigCh = <<>> /\ sigClosed = FALSE /\ sigLog = <<>>

LutOff == lpc = "off" /\ lc = NoSignature /\ table = <<>> /\ lerr = "none"

SyncOff == mpc = "off" /\ SyncLocalsInit

ApplyOff == apc = "off" /\ ao = NoOperation /\ dst = <<>> /\ aret = "none"

\* The pipeline of TestSync: Signatures -> LookUpTable -> Sync -> Apply.
Init ==
    /\ src \in Files
    /\ cache \in Files
    /\ ctxDone = FALSE
    /\ SigInit /\ LutInit /\ SyncInit /\ ApplyInit /\ HashIdle /\ PoolIdle /\ NoHistory

Next ==
    \/ SigSelect /\ UNCHANGED <<envVars, lutVars, syncVars, opsChVars, applyVars, hashVars, poolVars, histVars>>
    \/ SigRead("full") /\ UNCHANGED <<envVars, lutVars, syncVars, opsChVars, applyVars, hashVars, poolVars, histVars>>
    \/ SigSent /\ UNCHANGED <<envVars, lutVars, syncVars, opsChVars, applyVars, hashVars, poolVars, histVars>>
    \/ SigExit /\ UNCHANGED <<envVars, lutVars, syncVars, opsChVars, applyVars, hashVars, poolVars, histVars>>
    \/ LutRecv /\ UNCHANGED <<envVars, sigVars, syncVars, opsChVars, applyVars, hashVars, poolVars, histVars>>
    \/ LutBody /\ UNCHANGED <<envVars, sigVars, sigChVars, syncVars, opsChVars, applyVars, hashVars, poolVars, histVars>>
    \/ SyncSelect /\ UNCHANGED <<envVars, sigVars, sigChVars, lutVars, applyVars, hashVars, poolVars>> /\ Track
    \/ SyncDrainStart /\ UNCHANGED <<envVars, sigVars, sigChVars, lutVars, applyVars, hashVars, poolVars>> /\ Track
    \/ SyncRead("any") /\ UNCHANGED <<envVars, sigVars, sigChVars, lutVars, applyVars, hashVars, poolVars>> /\ Track
    \/ SyncNoRemote /\ UNCHANGED <<envVars, sigVars, sigChVars, lutVars, applyVars, hashVars, poolVars>> /\ Track
    \/ SyncNoCache /\ UNCHANGED <<envVars, sigVars, sigChVars, lutVars, applyVars, hashVars, poolVars>> /\ Track
    \/ SyncNoCacheSent /\ UNCHANGED <<envVars, sigVars, sigChVars, lutVars, applyVars, hashVars, poolVars>> /\ Track
    \/ SyncHash /\ UNCHANGED <<envVars, sigVars, sigChVars, lutVars, applyVars, hashVars, poolVars>> /\ Track
    \/ SyncDeltaSent /\ UNCHANGED <<envVars, sigVars, sigChVars, lutVars, applyVars, hashVars, poolVars>> /\ Track
    \/ SyncCopySent /\ UNCHANGED <<envVars, sigVars, sigChVars, lutVars, applyVars, hashVars, poolVars>> /\ Track
    \/ SyncFlushSent /\ UNCHANGED <<envVars, sigVars, sigChVars, lutVars, applyVars, hashVars, poolVars>> /\ Track
    \/ SyncDrain /\ UNCHANGED <<envVars, sigVars, sigChVars, lutVars, applyVars, hashVars, poolVars>> /\ Track
    \/ SyncDrainSent /\ UNCHANGED <<envVars, sigVars, sigChVars, lutVars, applyVars, hashVars, poolVars>> /\ Track
    \/ SyncExit /\ UNCHANGED <<envVars, sigVars, sigChVars, lutVars, applyVars, hashVars, poolVars>> /\ Track
    \/ ApplyRecv /\ UNCHANGED <<envVars, sigVars, sigChVars, lutVars, syncVars, hashVars, poolVars, histVars>>
    \/ ApplyBody(FALSE) /\ UNCHANGED <<envVars, sigVars, sigChVars, lutVars, syncVars, opsChVars, hashVars, poolVars, histVars>>

Spec == Init /\ [][Next]_vars


(***************************************************************************)
(* What a run has sent and written.                                        *)
(***************************************************************************)
IsLiteral(op) == op.Error = "nil" /\ Len(op.Data) > 0
IsCopy(op) == op.Error = "nil" /\ Len(op.Data) = 0

\* the literal payloads of a sequence of operations, concatenated in order
RECURSIVE LiteralBytes(_)
LiteralBytes(ops) ==
    IF ops = <<>> THEN <<>> ELSE Head(ops).Data \o LiteralBytes(Tail(ops))

IsPrefix(s, u) == Len(s) <= Len(u) /\ s = SubSeq(u, 1, Len(s))

\* the bytes of C that Copy(i) stands for
CopyBytes(i) ==
    Slice(cache, Min(i * BlockSize, Len(cache)),
                 Min((i + 1) * BlockSize, Len(cache)))

\* what one operation contributes to the reconstructed file
Resolved(op) == IF Len(op.Data) > 0 THEN op.Data ELSE CopyBytes(op.Index)

RECURSIVE ResolvedBytes(_)
ResolvedBytes(ops) ==
    IF ops = <<>> THEN <<>> ELSE Resolved(Head(ops)) \o ResolvedBytes(Tail(ops))

(***************************************************************************)
(* C1  Round-trip identity.  With a collision-free strong hash, error-free *)
(* readers, a Signer reader that delivers full blocks and no cancellation, *)
(* Signatures(C) -> LookUpTable -> Sync(S, table) -> Apply(ops, C) returns *)
(* nil and has written exactly S, for every S and C.                       *)
(***************************************************************************)
RoundTrip == apc = "done" => (aret = "nil" /\ dst = src)

\* A finished run that needed a pending literal run, a Copy and a drain,
\* on a cache that is neither empty nor the source.
RoundTripWitness ==
    /\ apc = "done" /\ dst = src
    /\ cache # <<>> /\ cache # src /\ Len(src) > BlockSize
    /\ \E i, j \in 1..Len(opsLog) :
          i < j /\ IsLiteral(opsLog[i]) /\ IsCopy(opsLog[j])
    /\ IsLiteral(opsLog[Len(opsLog)])

(***************************************************************************)
(* C3  Identical inputs.  Whenever C = S, whatever the length, every       *)
(* operation the Matcher sends is a Copy: no literal byte is transmitted.  *)
(***************************************************************************)
IdenticalAllCopy ==
    (src = cache) => \A i \in 1..Len(opsLog) : IsCopy(opsLog[i])

\* the signatures in the table whose block has exactly the content s
SignedAs(s) ==
    {b \in UNION {{table[w][i] : i \in 1..Len(table[w])} : w \in DOMAIN table} :
        b.Strong = strongSum(s)}

(***************************************************************************)
(* C17  Short source.  A source shorter than BlockSize (and not empty) is  *)
(* sent as exactly one Literal holding all of it, unless the table holds   *)
(* the signature of a short block of exactly that content, in which case   *)
(* exactly one Copy of such a block is sent instead.                       *)
(***************************************************************************)
ShortSourceOneOp ==
    (mpc = "done" /\ 0 < Len(src) /\ Len(src) < BlockSize) =>
        /\ Len(opsLog) = 1
        /\ IF SignedAs(src) = {}
           THEN IsLiteral(opsLog[1]) /\ opsLog[1].Data = src
           ELSE /\ IsCopy(opsLog[1])
                /\ \E b \in SignedAs(src) : opsLog[1].Index = b.Index

\* the number of full blocks of C
FullBlocks == Len(cache) \div BlockSize

\* the first block of C with the content of block i
FirstEqual(i) ==
    CHOOSE j \in 0..i :
        /\ CopyBytes(j) = CopyBytes(i)
        /\ \A h \in 0..(j - 1) : CopyBytes(h) # CopyBytes(i)

(***************************************************************************)
(* C18 as claimed.  For C a prefix of S, a finished run has sent           *)
(* Copy(0), Copy(1), ..., one per full block of C, and after them only     *)
(* Literals, which hold the remaining bytes of S.                          *)
(***************************************************************************)
PrefixCopiesThenLiterals ==
    (mpc = "done" /\ IsPrefix(cache, src)) =>
        /\ Len(opsLog) >= FullBlocks
        /\ \A i \in 1..FullBlocks :
              IsCopy(opsLog[i]) /\ opsLog[i].Index = i - 1
        /\ \A i \in (FullBlocks + 1)..Len(opsLog) : IsLiteral(opsLog[i])
        /\ LiteralBytes(opsLog)
              = Slice(src, FullBlocks * BlockSize, Len(src))

(***************************************************************************)
(* C18 as amended.  For C a prefix of S, the first floor(|C| / BlockSize)  *)
(* operations are Copies that stand for the contents of block 0, 1, 2, ... *)
(* of C in that order, each naming the first block of C with that content  *)
(* (Copy(i) itself when no earlier block equals block i); every later      *)
(* operation is a Literal or the Copy of a full block of C; and the        *)
(* operations of a finished run resolve to S.                              *)
(***************************************************************************)
PrefixCopiesFirst ==
    IsPrefix(cache, src) =>
        /\ \A i \in 1..Min(FullBlocks, Len(opsLog)) :
              IsCopy(opsLog[i]) /\ opsLog[i].Index = FirstEqual(i - 1)
        /\ \A i \in (FullBlocks + 1)..Len(opsLog) :
              \/ IsLiteral(opsLog[i])
              \/ /\ IsCopy(opsLog[i])
                 /\ opsLog[i].Index < FullBlocks
                 /\ opsLog[i].Index = FirstEqual(opsLog[i].Index)
        /\ IsPrefix(ResolvedBytes(opsLog), src)
        /\ mpc = "done" =>
              (Len(opsLog) >= FullBlocks /\ ResolvedBytes(opsLog) = src)

\* A finished run on a cache of one full block and a short one, prefix of a
\* longer source: Copy(0), then a literal.
PrefixCopiesWitness ==
    /\ mpc = "done" /\ IsPrefix(cache, src) /\ cache # src
    /\ Len(cache) = BlockSize + 1
    /\ Len(opsLog) >= 2
    /\ IsCopy(opsLog[1]) /\ opsLog[1].Index = 0
    /\ IsLiteral(opsLog[2])

(***************************************************************************)
(* The operation sequence as a function of the source bytes and the table  *)
(* alone: a scan of S from position p with d pending literal bytes, with   *)
(* no buffer, no read and no rolling state.                                *)
(***************************************************************************)
RECURSIVE Chunks(_)
Chunks(s) ==
    IF Len(s) >= BlockSize
    THEN <<BlockOperation(0, SubSeq(s, 1, BlockSize), "nil")>>
         \o Chunks(SubSeq(s, BlockSize + 1, Len(s)))
    ELSE IF Len(s) > 0 THEN <<BlockOperation(0, s, "nil")>>
    ELSE <<>>

RECURSIVE Scan(_, _)
Scan(p, d) ==
    IF Len(src) - p < BlockSize THEN Chunks(Slice(src, p - d, Len(src)))
    ELSE IF DOMAIN table = {}
    THEN <<BlockOperation(0, Slice(src, p, p + BlockSize), "nil")>>
         \o Scan(p + BlockSize, 0)
    ELSE LET w == Slice(src, p, p + BlockSize)
             h == rollingHash(w)[3]
             m == IF h \in DOMAIN table
                  THEN FirstMatch(table[h], strongSum(w)) ELSE 0
         IN  IF m # 0
             THEN (IF d > 0
                   THEN <<BlockOperation(0, Slice(src, p - d, p), "nil")>>
                   ELSE <<>>)
                  \o <<BlockOperation(table[h][m].Index, <<>>, "nil")>>
                  \o Scan(p + BlockSize, 0)
             ELSE IF d + 1 >= BlockSize
             THEN <<BlockOperation(0, Slice(src, p - d, p - d + BlockSize),
                                   "nil")>>
                  \o Scan(p + 1, d + 1 - BlockSize)
             ELSE Scan(p + 1, d + 1)

(***************************************************************************)
(* C19  Determinism.  Without error or cancellation, the operations the    *)
(* Matcher sends are a function of the source bytes and the table: however *)
(* the reader cuts the source into reads and however the goroutines        *)
(* interleave, what has been sent is a prefix of the one sequence          *)
(* Scan(0, 0), and all of it once the Matcher has finished.  So two runs   *)
(* on the same source and table send the same kinds, Copy indices, literal *)
(* payloads and literal boundaries.                                        *)
(***************************************************************************)
SameInputsSameOps ==
    lpc = "done" =>
        /\ IsPrefix(opsLog, Scan(0, 0))
        /\ mpc = "done" => opsLog = Scan(0, 0)

\* A finished run that sent a literal run shorter than a block, a Copy and
\* a literal tail.
SameInputsWitness ==
    /\ mpc = "done" /\ Len(opsLog) >= 3
    /\ IsLiteral(opsLog[1]) /\ Len(opsLog[1].Data) < BlockSize
    /\ IsCopy(opsLog[2])
    /\ IsLiteral(opsLog[3])

(***************************************************************************)
(* C4  No-cache degeneracy.  When the table passed to Sync is empty, every *)
(* operation sent is a Literal, the literal payloads in the order sent are *)
(* a prefix of S and, once Sync is done, all of S, and Sync never computes *)
(* a weak or a strong hash.                                                *)
(***************************************************************************)
NoCacheAllLiteral ==
    (lpc = "done" /\ DOMAIN table = {}) =>
        /\ \A i \in 1..Len(opsLog) : IsLiteral(opsLog[i])
        /\ IsPrefix(LiteralBytes(opsLog), src)
        /\ mpc = "done" => LiteralBytes(opsLog) = src
        /\ weakCalls = 0 /\ strongCalls = 0

\* Sync has finished a source of a full block and a tail with no table.
NoCacheWitness ==
    /\ lpc = "done" /\ DOMAIN table = {} /\ mpc = "done"
    /\ Len(opsLog) >= 2 /\ Len(src) % BlockSize # 0
    /\ LiteralBytes(opsLog) = src


(***************************************************************************)
(* The rolling-hash specification: every byte string, every window length, *)
(* rollingHash on the first window and rollingHash2 from there on.         *)
(***************************************************************************)
HashInit ==
    /\ hblock \in SeqsUpTo(HashBytes, HashLen) \ {<<>>}
    /\ hl \in 1..Len(hblock)
    /\ hk = 0 /\ hr = <<0, 0, 0>> /\ hpc = "fresh"
    /\ src = <<>> /\ cache = <<>> /\ ctxDone = FALSE
    /\ SigOff /\ LutOff /\ SyncOff /\ OpsChInit /\ ApplyOff /\ PoolIdle /\ NoHistory

HashNext ==
    \/ HashFresh /\ UNCHANGED <<envVars, sigVars, sigChVars, lutVars, syncVars, opsChVars, applyVars, poolVars, histVars>>
    \/ HashRoll /\ UNCHANGED <<envVars, sigVars, sigChVars, lutVars, syncVars, opsChVars, applyVars, poolVars, histVars>>

SpecHash == HashInit /\ [][HashNext]_vars

(***************************************************************************)
(* C5  Rolling-hash consistency.  After rollingHash on b[0..L) and any     *)
(* number k of rollingHash2 steps (each removing b[k-1], adding b[k+L-1]), *)
(* the (r1, r2, digest) carried is the one rollingHash computes from       *)
(* scratch on b[k..k+L).                                                   *)
(***************************************************************************)
RollingConsistent ==
    hpc = "rolling" => hr = rollingHash(Slice(hblock, hk, hk + hl))

\* Several incremental steps over a window that lost and gained unequal bytes.
RollingWitness ==
    /\ hpc = "rolling" /\ hk >= 2 /\ hl >= 2
    /\ hblock[hk] # hblock[hk + hl]
    /\ hblock[hk] = 255


(***************************************************************************)
(* The signing specification: Signatures and LookUpTable over the          *)
(* unbuffered signature channel, with any io.Reader (short reads, the last *)
(* bytes together with io.EOF, read errors) and cancellation at any time.  *)
(***************************************************************************)
SignInit ==
    /\ src = <<>>
    /\ cache \in Files
    /\ ctxDone = FALSE
    /\ SigInit /\ LutInit /\ SyncOff /\ OpsChInit /\ ApplyOff /\ HashIdle /\ PoolIdle /\ NoHistory

SignerStep ==
    /\ SigSelect \/ SigRead("any") \/ SigSent \/ SigExit
    /\ UNCHANGED <<envVars, lutVars, syncVars, opsChVars, applyVars, hashVars, poolVars, histVars>>

LutStep ==
    \/ LutRecv /\ UNCHANGED <<envVars, sigVars, syncVars, opsChVars, applyVars, hashVars, poolVars, histVars>>
    \/ LutBody /\ UNCHANGED <<envVars, sigVars, sigChVars, syncVars, opsChVars, applyVars, hashVars, poolVars, histVars>>

CancelStep ==
    Cancel /\ UNCHANGED <<sigVars, sigChVars, lutVars, syncVars, opsChVars, applyVars, hashVars, poolVars, histVars>>

SignNext ==
    \/ SigSelect /\ UNCHANGED <<envVars, lutVars, syncVars, opsChVars, applyVars, hashVars, poolVars, histVars>>
    \/ SigRead("any") /\ UNCHANGED <<envVars, lutVars, syncVars, opsChVars, applyVars, hashVars, poolVars, histVars>>
    \/ SigSent /\ UNCHANGED <<envVars, lutVars, syncVars, opsChVars, applyVars, hashVars, poolVars, histVars>>
    \/ SigExit /\ UNCHANGED <<envVars, lutVars, syncVars, opsChVars, applyVars, hashVars, poolVars, histVars>>
    \/ LutRecv /\ UNCHANGED <<envVars, sigVars, syncVars, opsChVars, applyVars, hashVars, poolVars, histVars>>
    \/ LutBody /\ UNCHANGED <<envVars, sigVars, sigChVars, syncVars, opsChVars, applyVars, hashVars, poolVars, histVars>>
    \/ CancelStep

SpecSign == SignInit /\ [][SignNext]_vars

\* Both goroutines keep running while they can take a step; the context is
\* cancelled by the caller, whenever it likes or never.
FairSign == SpecSign /\ WF_vars(SignerStep) /\ WF_vars(LutStep)

(***************************************************************************)
(* C9  The records the Signer sends (signatures, read-error records and    *)
(* the final cancellation record) carry the indices 0, 1, 2, ... in the    *)
(* order sent, without gap or repeat.                                      *)
(***************************************************************************)
SigIndexOrder == \A j \in 1..Len(sigLog) : sigLog[j].Index = j - 1

\* A signature, then a read-error record, then the cancellation record.
SigIndexWitness ==
    /\ Len(sigLog) >= 3
    /\ \E i, j \in 1..Len(sigLog) :
          i < j /\ sigLog[i].Error = "nil" /\ sigLog[j].Error = "read"
    /\ sigLog[Len(sigLog)].Error = "ctx"
    /\ sigClosed

(***************************************************************************)
(* C10  For any error-free reader, short reads included, the signature     *)
(* with index i is the hash of the cache bytes                             *)
(* [i*BlockSize, min((i+1)*BlockSize, |C|)), the range Apply reads for     *)
(* Copy(i); so every signature but the last covers BlockSize bytes.        *)
(***************************************************************************)
SigBlocksAligned ==
    readErrs = 0 =>
        \A j \in 1..Len(sigLog) :
            sigLog[j].Error = "nil" =>
                sigLog[j].Strong = ReadAt(sigLog[j].Index * DefaultBlockSize)

(***************************************************************************)
(* C11  Signer error policy.  A read error is reported in one record and   *)
(* the Signer goes on; every signature sent afterwards still carries the   *)
(* index of the BlockSize-aligned position of the bytes it hashed.  Stated *)
(* for the runs whose successful reads all delivered a full block: the     *)
(* signature just sent hashed the BlockSize bytes that end at the reader's *)
(* position, and its index is that offset divided by BlockSize.            *)
(***************************************************************************)
SigErrorKeepsAlignment ==
    (/\ spc = "sent"
     /\ sigLog[Len(sigLog)].Error = "nil"
     /\ \A j \in 1..Len(sigLog) :
            sigLog[j].Error = "nil" => Len(sigLog[j].Strong) = BlockSize)
    => sigLog[Len(sigLog)].Index * BlockSize = cpos - BlockSize

\* the records of sigs that carry no error and the weak hash w, in order
RECURSIVE Bucket(_, _)
Bucket(sigs, w) ==
    IF sigs = <<>> THEN <<>>
    ELSE IF Head(sigs).Error = "nil" /\ Head(sigs).Weak = w
    THEN <<Head(sigs)>> \o Bucket(Tail(sigs), w)
    ELSE Bucket(Tail(sigs), w)

\* the table that holds exactly the error-free records of sigs
HoldsExactly(t, sigs) ==
    /\ DOMAIN t = {sigs[j].Weak : j \in {i \in 1..Len(sigs) : sigs[i].Error = "nil"}}
    /\ \A w \in DOMAIN t : t[w] = Bucket(sigs, w)

(***************************************************************************)
(* C15  When LookUpTable drains the channel and returns nil, the table     *)
(* holds every error-free signature received exactly once and no record    *)
(* with Error set, every entry under key w has Weak = w, and the entries   *)
(* of a bucket are in the order received.                                  *)
(***************************************************************************)
TableComplete ==
    (lpc = "done" /\ lerr = "nil") => HoldsExactly(table, sigLog)

\* A drained run with a read-error record and two signatures in one bucket.
TableCompleteWitness ==
    /\ lpc = "done" /\ lerr = "nil"
    /\ \E j \in 1..Len(sigLog) : sigLog[j].Error = "read"
    /\ \E w \in DOMAIN table :
          /\ Len(table[w]) >= 2
          /\ table[w][1].Index < table[w][2].Index

(***************************************************************************)
(* C16  When LookUpTable observes the cancellation it returns the          *)
(* cancellation error and the partial table: exactly the error-free        *)
(* signatures received before the record it held when it looked at the     *)
(* context.  It returns that error only if the context is cancelled, and   *)
(* nil when the context is not.                                            *)
(***************************************************************************)
TablePartialOnCancel ==
    LET recv == Len(sigLog) - Len(sigCh)
    IN  /\ (lpc = "done" /\ lerr = "ctx") =>
               /\ ctxDone
               /\ recv >= 1 /\ lc = sigLog[recv]
               /\ HoldsExactly(table, SubSeq(sigLog, 1, recv - 1))
        /\ (lpc = "done" /\ ~ctxDone) => lerr = "nil"

\* Cancelled with a signature in the table and a signature in hand, which
\* is left out.
TablePartialWitness ==
    /\ lpc = "done" /\ lerr = "ctx"
    /\ DOMAIN table # {}
    /\ lc.Error = "nil" /\ lc.Index >= 1
    /\ \A w \in DOMAIN table :
          \A i \in 1..Len(table[w]) : table[w][i].Index # lc.Index

(***************************************************************************)
(* C7  Once the context is cancelled the Signer goroutine eventually       *)
(* terminates and closes the signature channel, even though LookUpTable    *)
(* returns as soon as it observes the cancellation (stated for the runs    *)
(* whose reader reports no error).                                         *)
(***************************************************************************)
SignerClosesAfterCancel == <>(readErrs # 0) \/ (ctxDone ~> sigClosed)


(***************************************************************************)
(* The matching specification: Sync and Apply over the unbuffered          *)
(* operation channel, started once Signatures and LookUpTable have run to  *)
(* completion over the cache; any source reader, with read errors, cache   *)
(* read errors, destination write errors and cancellation at any time.     *)
(***************************************************************************)
NumBlocks(c) == (Len(c) + BlockSize - 1) \div BlockSize

\* the records a complete Signatures run over c sends, full blocks read
SignaturesOf(c) ==
    [i \in 1..NumBlocks(c) |->
        LET block == Slice(c, (i - 1) * BlockSize, Min(i * BlockSize, Len(c)))
        IN  BlockSignature(i - 1, strongSum(block), rollingHashWeak(block), "nil")]

\* the table LookUpTable builds from the records sigs, added to t
RECURSIVE TableFrom(_, _)
TableFrom(t, sigs) ==
    IF sigs = <<>> THEN t ELSE TableFrom(TableAdd(t, Head(sigs)), Tail(sigs))

SignedInit ==
    /\ spc = "done" /\ index = NumBlocks(cache) /\ cpos = Len(cache)
    /\ readErrs = 0
    /\ sigCh = <<>> /\ sigClosed = TRUE /\ sigLog = SignaturesOf(cache)
    /\ lpc = "done" /\ lerr = "nil"
    /\ lc = IF cache = <<>> THEN NoSignature
            ELSE SignaturesOf(cache)[NumBlocks(cache)]
    /\ table = TableFrom(<<>>, SignaturesOf(cache))

\* In the pipeline, LookUpTable returns exactly in a state of SignedInit.
PipelineSigned == (lpc = "done" /\ mpc = "select" /\ opsLog = <<>>) => SignedInit

MatchInit ==
    /\ src \in Files
    /\ cache \in Files
    /\ ctxDone = FALSE
    /\ SignedInit /\ SyncInit /\ ApplyInit /\ HashIdle /\ PoolIdle /\ NoHistory

SyncStep(kind) ==
    /\ \/ SyncSelect \/ SyncDrainStart \/ SyncRead(kind) \/ SyncNoRemote
       \/ SyncNoCache \/ SyncNoCacheSent \/ SyncHash \/ SyncDeltaSent
       \/ SyncCopySent \/ SyncFlushSent \/ SyncDrain \/ SyncDrainSent
       \/ SyncExit
    /\ UNCHANGED <<envVars, sigVars, sigChVars, lutVars, applyVars, hashVars, poolVars>>
    /\ Track

ApplyStep(faulty) ==
    \/ ApplyRecv /\ UNCHANGED <<envVars, sigVars, sigChVars, lutVars, syncVars, hashVars, poolVars, histVars>>
    \/ ApplyBody(faulty) /\ UNCHANGED <<envVars, sigVars, sigChVars, lutVars, syncVars, opsChVars, hashVars, poolVars, histVars>>

MatchNext ==
    \/ SyncSelect /\ UNCHANGED <<envVars, sigVars, sigChVars, lutVars, applyVars, hashVars, poolVars>> /\ Track
    \/ SyncDrainStart /\ UNCHANGED <<envVars, sigVars, sigChVars, lutVars, applyVars, hashVars, poolVars>> /\ Track
    \/ SyncRead("faulty") /\ UNCHANGED <<envVars, sigVars, sigChVars, lutVars, applyVars, hashVars, poolVars>> /\ Track
    \/ SyncNoRemote /\ UNCHANGED <<envVars, sigVars, sigChVars, lutVars, applyVars, hashVars, poolVars>> /\ Track
    \/ SyncNoCache /\ UNCHANGED <<envVars, sigVars, sigChVars, lutVars, applyVars, hashVars, poolVars>> /\ Track
    \/ SyncNoCacheSent /\ UNCHANGED <<envVars, sigVars, sigChVars, lutVars, applyVars, hashVars, poolVars>> /\ Track
    \/ SyncHash /\ UNCHANGED <<envVars, sigVars, sigChVars, lutVars, applyVars, hashVars, poolVars>> /\ Track
    \/ SyncDeltaSent /\ UNCHANGED <<envVars, sigVars, sigChVars, lutVars, applyVars, hashVars, poolVars>> /\ Track
    \/ SyncCopySent /\ UNCHANGED <<envVars, sigVars, sigChVars, lutVars, applyVars, hashVars, poolVars>> /\ Track
    \/ SyncFlushSent /\ UNCHANGED <<envVars, sigVars, sigChVars, lutVars, applyVars, hashVars, poolVars>> /\ Track
    \/ SyncDrain /\ UNCHANGED <<envVars, sigVars, sigChVars, lutVars, applyVars, hashVars, poolVars>> /\ Track
    \/ SyncDrainSent /\ UNCHANGED <<envVars, sigVars, sigChVars, lutVars, applyVars, hashVars, poolVars>> /\ Track
    \/ SyncExit /\ UNCHANGED <<envVars, sigVars, sigChVars, lutVars, applyVars, hashVars, poolVars>> /\ Track
    \/ ApplyRecv /\ UNCHANGED <<envVars, sigVars, sigChVars, lutVars, syncVars, hashVars, poolVars, histVars>>
    \/ ApplyBody(TRUE) /\ UNCHANGED <<envVars, sigVars, sigChVars, lutVars, syncVars, opsChVars, hashVars, poolVars, histVars>>
    \/ CancelStep

SpecMatch == MatchInit /\ [][MatchNext]_vars

(***************************************************************************)
(* C2  Apply never reports success for a partial or divergent file: under  *)
(* every interleaving of cancellation, source read errors, cache read      *)
(* errors and destination write errors, a nil result of Apply means the    *)
(* destination holds exactly S.                                            *)
(***************************************************************************)
NilMeansExact == aret = "nil" => dst = src

\* Apply returned nil although the context was cancelled during the run
\* (after the last check of either goroutine), on a run with a Copy.
NilMeansExactWitness ==
    /\ aret = "nil" /\ ctxDone /\ dst = src
    /\ Len(src) > BlockSize
    /\ \E i \in 1..Len(opsLog) : IsCopy(opsLog[i])


(***************************************************************************)
(* C12  The Matcher never sends an operation for zero bytes.  An operation *)
(* with no error and empty Data is what Apply resolves as a Copy; every    *)
(* such operation the Matcher sends comes from its Copy statement, so no   *)
(* literal statement ever sends an empty payload; and for an empty source  *)
(* no data operation is sent at all (the only record an empty source can   *)
(* produce is the error record of a cancellation or a failed read).        *)
(***************************************************************************)
NoZeroByteOps ==
    /\ [](src = <<>> => \A i \in 1..Len(opsLog) : opsLog[i].Error # "nil")
    /\ [][(Len(opsLog') = Len(opsLog) + 1 /\ IsCopy(opsLog'[Len(opsLog')]))
            => mpc' = "copySent"]_vars

\* A finished run that sent a Copy of block 0 and a literal of one byte.
NoZeroByteOpsWitness ==
    /\ mpc = "done"
    /\ \E i \in 1..Len(opsLog) : IsCopy(opsLog[i]) /\ opsLog[i].Index = 0
    /\ \E i \in 1..Len(opsLog) :
          IsLiteral(opsLog[i]) /\ Len(opsLog[i].Data) = 1

(***************************************************************************)
(* C20  Literal payload ownership.  The memory behind the Data of an       *)
(* operation already sent holds what was sent and is never changed by a    *)
(* later step: not by the refill that shifts the buffer, not by a further  *)
(* read into it, not by a slide.  Every payload is a copy of its own.      *)
(***************************************************************************)
PayloadsOwned ==
    /\ [](/\ Len(payloads) = Len(opsLog)
          /\ \A i \in 1..Len(payloads) : payloads[i].bytes = opsLog[i].Data)
    /\ [][\A i \in 1..Len(payloads) : payloads'[i].bytes = payloads[i].bytes]_vars

\* A literal was sent and a later refill has overwritten the part of the
\* buffer it was taken from.
PayloadsOwnedWitness ==
    \E i \in 1..Len(payloads) :
        /\ IsLiteral(opsLog[i])
        /\ payloads[i].bytes = opsLog[i].Data
        /\ payloads[i].bytes
              # Slice(buffer, payloads[i].at,
                      payloads[i].at + Len(payloads[i].bytes))

\* the step has sent exactly one operation
SentOne == Len(opsLog') = Len(opsLog) + 1

\* a block of BlockSize - 1 zeros and a one, and a source that is a zero
\* followed by that block (the shape of C = "abcd", S = "aaabcd")
ExampleBlock == [i \in 1..BlockSize |-> IF i = BlockSize THEN 1 ELSE 0]

(***************************************************************************)
(* C22  The match step.  On a confirmed match the pending bytes            *)
(* [offset-delta, offset) go out as exactly one Literal, immediately       *)
(* followed by the Copy (no Literal when delta is 0); delta becomes 0;     *)
(* once the Copy is sent offset advances by the window length, rolling is  *)
(* cleared and r1, r2, old, rhash are zeroed; and a hash taken with        *)
(* rolling cleared is computed from the window from scratch.  A source     *)
(* that is one byte followed by the signed block gives [Literal, Copy(0)]. *)
(***************************************************************************)
MatchStep ==
    /\ [][(mpc = "fill" /\ mpc' = "deltaSent") =>
            /\ delta > 0 /\ SentOne
            /\ opsLog'[Len(opsLog')]
                  = BlockOperation(0, Slice(buffer, offset - delta, offset), "nil")]_vars
    /\ [][(mpc = "deltaSent" /\ mpc' # mpc) =>
            /\ mpc' = "copySent" /\ SentOne
            /\ IsCopy(opsLog'[Len(opsLog')])
            /\ delta' = 0 /\ offset' = offset]_vars
    /\ [][(mpc = "fill" /\ mpc' = "copySent") =>
            /\ delta = 0 /\ SentOne
            /\ IsCopy(opsLog'[Len(opsLog')])]_vars
    /\ [][(mpc = "copySent" /\ mpc' # mpc) =>
            /\ offset' = offset + BlockSize /\ delta' = 0
            /\ ~rolling' /\ r1' = 0 /\ r2' = 0 /\ old' = 0 /\ rhash' = 0
            /\ opsLog' = opsLog]_vars
    /\ [][(weakCalls' = weakCalls + 1 /\ ~rolling) =>
            rhash' = rollingHash(Slice(buffer, offset, offset + BlockSize))[3]]_vars
    /\ []((/\ mpc = "done" /\ err = "EOF"
           /\ cache = ExampleBlock /\ src = <<0>> \o ExampleBlock
           /\ \A i \in 1..Len(opsLog) : opsLog[i].Error = "nil")
          => opsLog = <<BlockOperation(0, <<0>>, "nil"),
                        BlockOperation(0, <<>>, "nil")>>)

\* The example run has finished: a literal of the one leading byte, Copy(0).
MatchStepWitness ==
    /\ mpc = "done" /\ err = "EOF" /\ ~ctxDone
    /\ cache = ExampleBlock /\ src = <<0>> \o ExampleBlock
    /\ Len(opsLog) = 2 /\ IsLiteral(opsLog[1]) /\ IsCopy(opsLog[2])

(***************************************************************************)
(* C23  A Copy(i) is sent only when the strong hash of the current full    *)
(* window of BlockSize bytes equals the Strong of an entry with index i in *)
(* the bucket of the window's weak hash.  A window whose bucket holds no   *)
(* entry of equal strong hash is handled like a window with no bucket: no  *)
(* Copy, and offset and delta each grow by one (before the flush of a full *)
(* literal run).                                                           *)
(***************************************************************************)
CopyOnlyOnStrongMatch ==
    /\ [][(SentOne /\ IsCopy(opsLog'[Len(opsLog')])) =>
            LET w == Slice(buffer', offset', offset' + BlockSize)
                h == rollingHash(w)[3]
            IN  /\ offset' + BlockSize <= max'
                /\ h \in DOMAIN table
                /\ \E k \in 1..Len(table[h]) :
                      /\ table[h][k].Strong = strongSum(w)
                      /\ table[h][k].Index = opsLog'[Len(opsLog')].Index]_vars
    /\ [][(/\ weakCalls' = weakCalls + 1
           /\ LET w == Slice(buffer, offset, offset + BlockSize)
                   h == rollingHash(w)[3]
               IN  \/ h \notin DOMAIN table
                   \/ \A k \in 1..Len(table[h]) :
                         table[h][k].Strong # strongSum(w))
          => /\ offset' = offset + 1 /\ delta' = delta + 1
             /\ rolling' /\ old' = buffer[offset + 1]
             /\ mpc' \in {"select", "flushSent"}
             /\ (SentOne => IsLiteral(opsLog'[Len(opsLog')]))]_vars

\* A finished run that computed a strong hash for a weak-hash hit and never
\* found an equal entry: only literals were sent.
CopyOnlyWitness ==
    /\ mpc = "done" /\ err = "EOF" /\ ~ctxDone
    /\ strongCalls >= 1
    /\ opsLog # <<>>
    /\ \A i \in 1..Len(opsLog) : IsLiteral(opsLog[i])

(***************************************************************************)
(* C24  Tie-breaking.  When several entries of the bucket have the strong  *)
(* hash of the window, one Copy is sent for the window, and it carries the *)
(* Index of the first such entry of the bucket, which is the lowest        *)
(* signature index among them.                                             *)
(***************************************************************************)
FirstEntryWins ==
    /\ [][(SentOne /\ IsCopy(opsLog'[Len(opsLog')])) =>
            LET w  == Slice(buffer', offset', offset' + BlockSize)
                h  == rollingHash(w)[3]
                eq == {k \in 1..Len(table[h]) : table[h][k].Strong = strongSum(w)}
                op == opsLog'[Len(opsLog')]
            IN  /\ eq # {}
                /\ \E k \in eq : /\ \A j \in eq : k <= j
                                  /\ op.Index = table[h][k].Index
                /\ \A k \in eq : op.Index <= table[h][k].Index
                /\ mpc' = "copySent"]_vars
    /\ [][(mpc = "copySent" /\ mpc' # mpc) =>
            (opsLog' = opsLog /\ offset' = offset + BlockSize)]_vars

\* A Copy has just been sent for a window that two entries of its bucket
\* equal.
FirstEntryWitness ==
    /\ mpc = "copySent" /\ opsLog # <<>>
    /\ IsCopy(opsLog[Len(opsLog)])
    /\ LET w == Slice(buffer, offset, offset + BlockSize)
           h == rollingHash(w)[3]
       IN  /\ h \in DOMAIN table
           /\ Cardinality({k \in 1..Len(table[h]) :
                               table[h][k].Strong = strongSum(w)}) >= 2

(***************************************************************************)
(* The same two goroutines with error-free readers and writers, where only *)
(* cancellation disturbs the run.  Both goroutines keep running while they *)
(* can take a step.                                                        *)
(***************************************************************************)
CancelNext ==
    \/ SyncSelect /\ UNCHANGED <<envVars, sigVars, sigChVars, lutVars, applyVars, hashVars, poolVars>> /\ Track
    \/ SyncDrainStart /\ UNCHANGED <<envVars, sigVars, sigChVars, lutVars, applyVars, hashVars, poolVars>> /\ Track
    \/ SyncRead("any") /\ UNCHANGED <<envVars, sigVars, sigChVars, lutVars, applyVars, hashVars, poolVars>> /\ Track
    \/ SyncNoRemote /\ UNCHANGED <<envVars, sigVars, sigChVars, lutVars, applyVars, hashVars, poolVars>> /\ Track
    \/ SyncNoCache /\ UNCHANGED <<envVars, sigVars, sigChVars, lutVars, applyVars, hashVars, poolVars>> /\ Track
    \/ SyncNoCacheSent /\ UNCHANGED <<envVars, sigVars, sigChVars, lutVars, applyVars, hashVars, poolVars>> /\ Track
    \/ SyncHash /\ UNCHANGED <<envVars, sigVars, sigChVars, lutVars, applyVars, hashVars, poolVars>> /\ Track
    \/ SyncDeltaSent /\ UNCHANGED <<envVars, sigVars, sigChVars, lutVars, applyVars, hashVars, poolVars>> /\ Track
    \/ SyncCopySent /\ UNCHANGED <<envVars, sigVars, sigChVars, lutVars, applyVars, hashVars, poolVars>> /\ Track
    \/ SyncFlushSent /\ UNCHANGED <<envVars, sigVars, sigChVars, lutVars, applyVars, hashVars, poolVars>> /\ Track
    \/ SyncDrain /\ UNCHANGED <<envVars, sigVars, sigChVars, lutVars, applyVars, hashVars, poolVars>> /\ Track
    \/ SyncDrainSent /\ UNCHANGED <<envVars, sigVars, sigChVars, lutVars, applyVars, hashVars, poolVars>> /\ Track
    \/ SyncExit /\ UNCHANGED <<envVars, sigVars, sigChVars, lutVars, applyVars, hashVars, poolVars>> /\ Track
    \/ ApplyRecv /\ UNCHANGED <<envVars, sigVars, sigChVars, lutVars, syncVars, hashVars, poolVars, histVars>>
    \/ ApplyBody(FALSE) /\ UNCHANGED <<envVars, sigVars, sigChVars, lutVars, syncVars, opsChVars, hashVars, poolVars, histVars>>
    \/ CancelStep

FairMatch ==
    /\ MatchInit /\ [][CancelNext]_vars
    /\ WF_vars(SyncStep("any")) /\ WF_vars(ApplyStep(FALSE))

(***************************************************************************)
(* C6  Once the shared context is cancelled the Matcher goroutine          *)
(* eventually terminates and closes the operation channel: it is never     *)
(* left blocked for ever on a send, whenever Apply observes the            *)
(* cancellation and returns.                                               *)
(***************************************************************************)
MatcherClosesAfterCancel == ctxDone ~> opsClosed

(***************************************************************************)
(* The two goroutines where only the source reader fails: no cancellation, *)
(* and an Apply whose cache reads and writes succeed, so that it receives  *)
(* every operation offered.  Both goroutines keep running while they can   *)
(* take a step.                                                            *)
(***************************************************************************)
ReadFaultNext ==
    \/ SyncSelect /\ UNCHANGED <<envVars, sigVars, sigChVars, lutVars, applyVars, hashVars, poolVars>> /\ Track
    \/ SyncDrainStart /\ UNCHANGED <<envVars, sigVars, sigChVars, lutVars, applyVars, hashVars, poolVars>> /\ Track
    \/ SyncRead("faulty") /\ UNCHANGED <<envVars, sigVars, sigChVars, lutVars, applyVars, hashVars, poolVars>> /\ Track
    \/ SyncNoRemote /\ UNCHANGED <<envVars, sigVars, sigChVars, lutVars, applyVars, hashVars, poolVars>> /\ Track
    \/ SyncNoCache /\ UNCHANGED <<envVars, sigVars, sigChVars, lutVars, applyVars, hashVars, poolVars>> /\ Track
    \/ SyncNoCacheSent /\ UNCHANGED <<envVars, sigVars, sigChVars, lutVars, applyVars, hashVars, poolVars>> /\ Track
    \/ SyncHash /\ UNCHANGED <<envVars, sigVars, sigChVars, lutVars, applyVars, hashVars, poolVars>> /\ Track
    \/ SyncDeltaSent /\ UNCHANGED <<envVars, sigVars, sigChVars, lutVars, applyVars, hashVars, poolVars>> /\ Track
    \/ SyncCopySent /\ UNCHANGED <<envVars, sigVars, sigChVars, lutVars, applyVars, hashVars, poolVars>> /\ Track
    \/ SyncFlushSent /\ UNCHANGED <<envVars, sigVars, sigChVars, lutVars, applyVars, hashVars, poolVars>> /\ Track
    \/ SyncDrain /\ UNCHANGED <<envVars, sigVars, sigChVars, lutVars, applyVars, hashVars, poolVars>> /\ Track
    \/ SyncDrainSent /\ UNCHANGED <<envVars, sigVars, sigChVars, lutVars, applyVars, hashVars, poolVars>> /\ Track
    \/ SyncExit /\ UNCHANGED <<envVars, sigVars, sigChVars, lutVars, applyVars, hashVars, poolVars>> /\ Track
    \/ ApplyRecv /\ UNCHANGED <<envVars, sigVars, sigChVars, lutVars, syncVars, hashVars, poolVars, histVars>>
    \/ ApplyBody(FALSE) /\ UNCHANGED <<envVars, sigVars, sigChVars, lutVars, syncVars, opsChVars, hashVars, poolVars, histVars>>

FairRead ==
    /\ MatchInit /\ [][ReadFaultNext]_vars
    /\ WF_vars(SyncStep("faulty")) /\ WF_vars(ApplyStep(FALSE))

(***************************************************************************)
(* C13  Matcher read-error policy.  Once a source read has returned an     *)
(* error other than io.EOF, the Matcher has sent one error operation, it   *)
(* is the only error operation and the last record of the stream (nothing  *)
(* is sent after it, the pending literal run is not flushed), the Matcher  *)
(* is on its way out, and the operation channel is eventually closed.      *)
(***************************************************************************)
ReadErrorEndsStream ==
    /\ [](err = "read" =>
            /\ mpc \in {"exit", "done"}
            /\ opsLog # <<>>
            /\ opsLog[Len(opsLog)].Error = "read"
            /\ \A i \in 1..(Len(opsLog) - 1) : opsLog[i].Error = "nil"
            /\ mpc = "done" => opsClosed)
    /\ ((err = "read") ~> opsClosed)

\* The read failed while a literal run was pending, after a Copy had been
\* sent; the channel is closed and the error operation has reached Apply.
ReadErrorWitness ==
    /\ err = "read" /\ opsClosed /\ delta > 0
    /\ \E i \in 1..Len(opsLog) : IsCopy(opsLog[i])
    /\ aret = "op"

(***************************************************************************)
(* The long-source specification: sources longer than the buffer of        *)
(* 16 * BlockSize bytes, so that the buffer fills up and is refilled with  *)
(* pending bytes in it, read one byte at a time or as much as fits.        *)
(***************************************************************************)
Repeat(pat, n) == [i \in 1..n |-> pat[((i - 1) % Len(pat)) + 1]]

LongFiles ==
    {Repeat(pat, n) : pat \in {<<0>>, <<0, 1>>, <<1, 1, 0>>},
                      n \in {bufferSize + 1, 2 * bufferSize + 1}}

LongInit ==
    /\ src \in LongFiles
    /\ cache \in SeqsUpTo(Bytes, BlockSize)
    /\ ctxDone = FALSE
    /\ SignedInit /\ SyncInit /\ ApplyInit /\ HashIdle /\ PoolIdle /\ NoHistory

LongNext ==
    \/ SyncSelect /\ UNCHANGED <<envVars, sigVars, sigChVars, lutVars, applyVars, hashVars, poolVars>> /\ Track
    \/ SyncDrainStart /\ UNCHANGED <<envVars, sigVars, sigChVars, lutVars, applyVars, hashVars, poolVars>> /\ Track
    \/ SyncRead("coarse") /\ UNCHANGED <<envVars, sigVars, sigChVars, lutVars, applyVars, hashVars, poolVars>> /\ Track
    \/ SyncNoRemote /\ UNCHANGED <<envVars, sigVars, sigChVars, lutVars, applyVars, hashVars, poolVars>> /\ Track
    \/ SyncNoCache /\ UNCHANGED <<envVars, sigVars, sigChVars, lutVars, applyVars, hashVars, poolVars>> /\ Track
    \/ SyncNoCacheSent /\ UNCHANGED <<envVars, sigVars, sigChVars, lutVars, applyVars, hashVars, poolVars>> /\ Track
    \/ SyncHash /\ UNCHANGED <<envVars, sigVars, sigChVars, lutVars, applyVars, hashVars, poolVars>> /\ Track
    \/ SyncDeltaSent /\ UNCHANGED <<envVars, sigVars, sigChVars, lutVars, applyVars, hashVars, poolVars>> /\ Track
    \/ SyncCopySent /\ UNCHANGED <<envVars, sigVars, sigChVars, lutVars, applyVars, hashVars, poolVars>> /\ Track
    \/ SyncFlushSent /\ UNCHANGED <<envVars, sigVars, sigChVars, lutVars, applyVars, hashVars, poolVars>> /\ Track
    \/ SyncDrain /\ UNCHANGED <<envVars, sigVars, sigChVars, lutVars, applyVars, hashVars, poolVars>> /\ Track
    \/ SyncDrainSent /\ UNCHANGED <<envVars, sigVars, sigChVars, lutVars, applyVars, hashVars, poolVars>> /\ Track
    \/ SyncExit /\ UNCHANGED <<envVars, sigVars, sigChVars, lutVars, applyVars, hashVars, poolVars>> /\ Track
    \/ ApplyRecv /\ UNCHANGED <<envVars, sigVars, sigChVars, lutVars, syncVars, hashVars, poolVars, histVars>>
    \/ ApplyBody(FALSE) /\ UNCHANGED <<envVars, sigVars, sigChVars, lutVars, syncVars, opsChVars, hashVars, poolVars, histVars>>

SpecLong == LongInit /\ [][LongNext]_vars

(***************************************************************************)
(* C25  Bounded literal run and buffer safety.  At every head of the main  *)
(* loop 0 <= delta < BlockSize and delta <= offset <= max <= 16*BlockSize; *)
(* a window is hashed only with offset + BlockSize <= max; when delta      *)
(* reaches BlockSize the oldest BlockSize pending bytes are sent as one    *)
(* Literal and delta drops by BlockSize; no slice of the buffer is taken   *)
(* out of range.                                                           *)
(***************************************************************************)
BufferSafe ==
    /\ [](mpc = "select" =>
            /\ 0 <= delta /\ delta < BlockSize
            /\ delta <= offset /\ offset <= max /\ max <= BufBlocks * BlockSize)
    /\ [](mpc # "panic")
    /\ [][weakCalls' = weakCalls + 1 => offset + BlockSize <= max]_vars
    /\ [][(mpc = "fill" /\ mpc' = "flushSent") =>
            /\ delta' = BlockSize /\ SentOne
            /\ opsLog'[Len(opsLog')]
                  = BlockOperation(0, Slice(buffer, offset' - BlockSize, offset'),
                                   "nil")]_vars
    /\ [][(mpc = "flushSent" /\ mpc' # mpc) => delta' = delta - BlockSize]_vars
    /\ [][(mpc = "fill" /\ mpc' = "select") => delta' < BlockSize]_vars

\* At the loop head, in a buffer filled to its end for the second time,
\* with literal bytes pending.
BufferSafeWitness ==
    /\ mpc = "select"
    /\ max = BufBlocks * BlockSize /\ spos > BufBlocks * BlockSize
    /\ delta > 0 /\ offset > delta

(***************************************************************************)
(* C26  A refill preserves in-flight bytes.  After a refill that read n    *)
(* bytes with left bytes in flight, buffer[0, left) holds the bytes that   *)
(* were at [offset-delta, max), in order, the n bytes read follow them,    *)
(* offset = delta, max = left + n, and delta and the rolling-hash state    *)
(* (r1, r2, old, rolling) are as before.  A step is a source read when it  *)
(* moves the source position or changes the reader's error.                *)
(***************************************************************************)
RefillKeepsInFlight ==
    [][((spos' # spos \/ err' # err) /\ err' # "read") =>
        LET lft == max - (offset - delta)
            n   == spos' - spos
        IN  /\ Slice(buffer', 0, lft) = Slice(buffer, offset - delta, max)
            /\ Slice(buffer', lft, lft + n) = Slice(src, spos, spos + n)
            /\ offset' = delta
            /\ max' = lft + n
            /\ delta' = delta /\ r1' = r1 /\ r2' = r2
            /\ old' = old /\ rolling' = rolling]_vars

\* The buffer has been filled to its end and refilled, with literal bytes
\* pending in front of the window and the rolling hash under way.
RefillKeepsWitness ==
    /\ mpc = "fill"
    /\ spos > BufBlocks * BlockSize
    /\ delta > 0 /\ offset = delta /\ max > offset
    /\ rolling

(***************************************************************************)
(* C27  Cancellation is checked at the head of the main loop and at each   *)
(* refill: Sync never makes two source reads, and never sends two          *)
(* operations, without looking at ctx.Done() in between; and when it sees  *)
(* the context cancelled it sends one error operation, which is the last   *)
(* record, and goes on to close the channel.                               *)
(***************************************************************************)
CancelCheckedBetween ==
    /\ [](sinceCheck.reads <= 1 /\ sinceCheck.sends <= 1)
    /\ [][(mpc = "select" /\ ctxDone /\ mpc' # mpc) =>
            /\ SentOne
            /\ opsLog'[Len(opsLog')] = BlockOperation(0, <<>>, "ctx")
            /\ mpc' = "exit"]_vars
    /\ [](\A i \in 1..Len(opsLog) :
              opsLog[i].Error # "nil" => i = Len(opsLog))

(***************************************************************************)
(* The pipeline with every goroutine scheduled: Signatures' goroutine,     *)
(* LookUpTable, Sync's goroutine and Apply each keep running while they    *)
(* can take a step.  The readers return no error and nobody cancels.       *)
(***************************************************************************)
SignerRun ==
    /\ SigSelect \/ SigRead("full") \/ SigSent \/ SigExit
    /\ UNCHANGED <<envVars, lutVars, syncVars, opsChVars, applyVars, hashVars, poolVars, histVars>>

FairSpec ==
    /\ Spec
    /\ WF_vars(SignerRun) /\ WF_vars(LutStep)
    /\ WF_vars(SyncStep("any")) /\ WF_vars(ApplyStep(FALSE))

(***************************************************************************)
(* C28  Pipeline termination.  For finite S and C, readers that return no  *)
(* error, a consumer that keeps receiving and no cancellation: the Signer  *)
(* closes its channel, LookUpTable returns a nil error, the Matcher closes *)
(* its channel at source EOF having sent finitely many operations, and     *)
(* Apply returns nil.                                                      *)
(***************************************************************************)
PipelineDone ==
    /\ spc = "done" /\ sigClosed /\ sigCh = <<>>
    /\ lpc = "done" /\ lerr = "nil"
    /\ mpc = "done" /\ opsClosed /\ opsCh = <<>> /\ err = "EOF"
    /\ apc = "done" /\ aret = "nil"

PipelineTerminates == <>[]PipelineDone

\* A finished run over a cache of more than one block in which Sync sent
\* both a Copy and a Literal.
PipelineDoneWitness ==
    /\ PipelineDone
    /\ Len(cache) > BlockSize
    /\ \E i, j \in 1..Len(opsLog) : IsLiteral(opsLog[i]) /\ ~IsLiteral(opsLog[j])

(***************************************************************************)
(* The rolling hash over long windows of 0xFF bytes, where the sums pass   *)
(* 2^16 and the subtractions of rollingHash2 go below zero.  The run       *)
(* carries r1 and r2; the digest r1 + mod * r2 goes up to 2^32 - 1, past   *)
(* the integers of the model checker, and is spoken of through r1 and r2.  *)
(* The loop of rollingHash is taken one byte at a step, hr holding         *)
(* (a, b, index) while it runs and (r1, r2) afterwards; for these lengths  *)
(* a and b stay far below 2^32.                                            *)
(***************************************************************************)
\* Longest tail of other bytes after the run of 0xFF.
MaxTail == 3

\* The least number of 0xFF bytes whose sum is 2^16 or more.
FullRun == (mod \div 255) + 1

WrapBlocks ==
    {Repeat(<<255>>, n) \o t : n \in {FullRun - 1, FullRun},
                               t \in SeqsUpTo(HashBytes, MaxTail)}

WrapInit ==
    /\ hblock \in WrapBlocks
    /\ hl \in {l \in {FullRun - 1, FullRun} : l <= Len(hblock)}
    /\ hk = 0 /\ hr = <<0, 0, 0>> /\ hpc = "fresh"
    /\ src = <<>> /\ cache = <<>> /\ ctxDone = FALSE
    /\ SigOff /\ LutOff /\ SyncOff /\ OpsChInit /\ ApplyOff /\ PoolIdle /\ NoHistory

\* for index, value := range block {
\*     a += uint32(value); b += (l - uint32(index)) * uint32(value) }
WrapSum ==
    /\ hpc = "fresh"
    /\ hr[3] < hl
    /\ LET value == hblock[hk + hr[3] + 1]
       IN  hr' = <<hr[1] + value, hr[2] + ((hl - hr[3]) * value), hr[3] + 1>>
    /\ UNCHANGED <<hpc, hblock, hl, hk>>

\* r1 := a % mod; r2 := b % mod
WrapFresh ==
    /\ hpc = "fresh"
    /\ hr[3] = hl
    /\ hr' = <<U32Rem(hr[1], mod), U32Rem(hr[2], mod)>>
    /\ hpc' = "rolling"
    /\ UNCHANGED <<hblock, hl, hk>>

WrapRoll ==
    /\ hpc = "rolling"
    /\ hk + hl < Len(hblock)
    /\ hr' = rollingSums2(hl, hr[1], hr[2], hblock[hk + 1], hblock[hk + hl + 1])
    /\ hk' = hk + 1
    /\ UNCHANGED <<hpc, hblock, hl>>

WrapNext ==
    \/ WrapSum /\ UNCHANGED <<envVars, sigVars, sigChVars, lutVars, syncVars, opsChVars, applyVars, poolVars, histVars>>
    \/ WrapFresh /\ UNCHANGED <<envVars, sigVars, sigChVars, lutVars, syncVars, opsChVars, applyVars, poolVars, histVars>>
    \/ WrapRoll /\ UNCHANGED <<envVars, sigVars, sigChVars, lutVars, syncVars, opsChVars, applyVars, poolVars, histVars>>

SpecWrap == WrapInit /\ [][WrapNext]_vars

\* The sum of the bytes of s, and the sum of its bytes weighted Len(s) for
\* the first down to 1 for the last, each by halves.
RECURSIVE Total(_)
Total(s) ==
    IF Len(s) = 0 THEN 0
    ELSE IF Len(s) = 1 THEN s[1]
    ELSE LET h == Len(s) \div 2
         IN  Total(SubSeq(s, 1, h)) + Total(SubSeq(s, h + 1, Len(s)))

RECURSIVE Weighted(_)
Weighted(s) ==
    IF Len(s) = 0 THEN 0
    ELSE IF Len(s) = 1 THEN s[1]
    ELSE LET h == Len(s) \div 2
         IN  Weighted(SubSeq(s, 1, h)) + ((Len(s) - h) * Total(SubSeq(s, 1, h)))
             + Weighted(SubSeq(s, h + 1, Len(s)))

(***************************************************************************)
(* C29  The weak hash is exact modulo 2^16.  For every block and every     *)
(* incremental step, also when r1 < outgoing byte or r2 < L * outgoing     *)
(* byte so that the uint32 subtraction wraps, r1 and r2 lie in [0, 2^16)   *)
(* and are the sum of the window's bytes and their weighted sum modulo     *)
(* 2^16, and the digest r1 + 2^16 * r2 does not pass 2^32 - 1 (its high    *)
(* half r2 + r1 \div 2^16 is below 2^16).                                  *)
(***************************************************************************)
WeakHashExact ==
    hpc = "rolling" =>
        LET w == Slice(hblock, hk, hk + hl)
        IN  /\ hr[1] \in 0..(mod - 1)
            /\ hr[2] \in 0..(mod - 1)
            /\ hr[1] = Total(w) % mod
            /\ hr[2] = Weighted(w) % mod
            /\ hr[2] + (hr[1] \div mod) < mod

\* After a step whose r1 was below the outgoing byte and whose r2 was below
\* L times the outgoing byte.
WeakHashWrapWitness ==
    /\ hpc = "rolling" /\ hk > 0
    /\ LET p == Slice(hblock, hk - 1, hk - 1 + hl)
       IN  /\ Total(p) % mod < hblock[hk]
           /\ Weighted(p) % mod < hl * hblock[hk]

(***************************************************************************)
(* C30  Streaming prefix.  At every point of a run of Sync between two     *)
(* statements of its loop, the operations sent so far, resolved against    *)
(* the cache, followed by the pending bytes buffer[offset-delta, offset),  *)
(* are exactly the source bytes in front of the current window (at the     *)
(* EOF drain: followed by the bytes still to be sent, they are the whole   *)
(* source); hence what Apply has written is always a prefix of S.          *)
(***************************************************************************)
StreamingPrefix ==
    /\ [](mpc \in {"select", "fill", "nocache"} =>
            ResolvedBytes(opsLog) \o Slice(buffer, offset - delta, offset)
                = Slice(src, 0, spos - (max - offset)))
    /\ [](mpc = "drain" =>
            ResolvedBytes(opsLog) \o Slice(buffer, max - left, max) = src)
    /\ [](IsPrefix(dst, src))

\* In a refilled buffer, with copies and literals sent, literal bytes
\* pending, and Apply having written part of the source.
StreamingPrefixWitness ==
    /\ mpc = "fill"
    /\ spos > BufBlocks * BlockSize
    /\ delta > 0
    /\ \E i, j \in 1..Len(opsLog) : IsLiteral(opsLog[i]) /\ ~IsLiteral(opsLog[j])
    /\ Len(dst) > 0 /\ Len(dst) < Len(src)

(***************************************************************************)
(* Sync and Apply over sources longer than the buffer, read through a      *)
(* reader that cuts them as it likes: a byte at a time or all that fits,   *)
(* with io.EOF together with the last bytes or from an empty read of its   *)
(* own.  The signatures are in the table; nobody cancels.                  *)
(***************************************************************************)
SplitFiles ==
    {Repeat(<<0, 1>>, bufferSize + 1),
     Repeat(<<1, 1, 0>>, bufferSize + BlockSize + 1)}

SplitInit ==
    /\ src \in SplitFiles
    /\ cache \in SeqsUpTo(Bytes, BlockSize)
    /\ ctxDone = FALSE
    /\ SignedInit /\ SyncInit /\ ApplyInit /\ HashIdle /\ PoolIdle /\ NoHistory

SplitNext ==
    \/ SyncSelect /\ UNCHANGED <<envVars, sigVars, sigChVars, lutVars, applyVars, hashVars, poolVars>> /\ Track
    \/ SyncDrainStart /\ UNCHANGED <<envVars, sigVars, sigChVars, lutVars, applyVars, hashVars, poolVars>> /\ Track
    \/ SyncRead("split") /\ UNCHANGED <<envVars, sigVars, sigChVars, lutVars, applyVars, hashVars, poolVars>> /\ Track
    \/ SyncNoRemote /\ UNCHANGED <<envVars, sigVars, sigChVars, lutVars, applyVars, hashVars, poolVars>> /\ Track
    \/ SyncNoCache /\ UNCHANGED <<envVars, sigVars, sigChVars, lutVars, applyVars, hashVars, poolVars>> /\ Track
    \/ SyncNoCacheSent /\ UNCHANGED <<envVars, sigVars, sigChVars, lutVars, applyVars, hashVars, poolVars>> /\ Track
    \/ SyncHash /\ UNCHANGED <<envVars, sigVars, sigChVars, lutVars, applyVars, hashVars, poolVars>> /\ Track
    \/ SyncDeltaSent /\ UNCHANGED <<envVars, sigVars, sigChVars, lutVars, applyVars, hashVars, poolVars>> /\ Track
    \/ SyncCopySent /\ UNCHANGED <<envVars, sigVars, sigChVars, lutVars, applyVars, hashVars, poolVars>> /\ Track
    \/ SyncFlushSent /\ UNCHANGED <<envVars, sigVars, sigChVars, lutVars, applyVars, hashVars, poolVars>> /\ Track
    \/ SyncDrain /\ UNCHANGED <<envVars, sigVars, sigChVars, lutVars, applyVars, hashVars, poolVars>> /\ Track
    \/ SyncDrainSent /\ UNCHANGED <<envVars, sigVars, sigChVars, lutVars, applyVars, hashVars, poolVars>> /\ Track
    \/ SyncExit /\ UNCHANGED <<envVars, sigVars, sigChVars, lutVars, applyVars, hashVars, poolVars>> /\ Track
    \/ ApplyRecv /\ UNCHANGED <<envVars, sigVars, sigChVars, lutVars, syncVars, hashVars, poolVars, histVars>>
    \/ ApplyBody(FALSE) /\ UNCHANGED <<envVars, sigVars, sigChVars, lutVars, syncVars, opsChVars, hashVars, poolVars, histVars>>

SpecSplit == SplitInit /\ [][SplitNext]_vars

(***************************************************************************)
(* C31  Read-chunking independence.  The operations the buffered Matcher   *)
(* sends depend on the source bytes and the table only, not on how the     *)
(* reader splits the source over the Read calls (reads of one byte or      *)
(* more, io.EOF with the last bytes or from a separate empty read):        *)
(* whatever the split, a run has sent the first Len(opsLog) operations of  *)
(* the scan of S against the table, and all of them once it is done.       *)
(***************************************************************************)
ChunkingIndependent ==
    /\ [][SentOne =>
            /\ Len(opsLog') <= Len(Scan(0, 0))
            /\ opsLog'[Len(opsLog')] = Scan(0, 0)[Len(opsLog')]]_vars
    /\ [](mpc = "exit" => opsLog = Scan(0, 0))

\* The reader has handed over the last bytes together with io.EOF, in a
\* refill that kept pending literal bytes, with a full window still to be
\* hashed against the table and operations already sent.
ChunkingWitness ==
    /\ mpc = "fill" /\ err = "EOF"
    /\ spos = Len(src)
    /\ delta > 0 /\ offset = delta
    /\ offset <= max - BlockSize
    /\ ~NoRemote /\ Len(opsLog) > 0

(***************************************************************************)
(* The pipeline of TestSync with one hash.Hash handed to Signatures and to *)
(* Sync, over caches of up to three blocks, and a context that may be      *)
(* cancelled at any time: the caller starts Sync when LookUpTable has      *)
(* returned, whatever it returned.                                         *)
(***************************************************************************)
SharedCaches ==
    {Repeat(pat, n) : pat \in {<<0>>, <<0, 1>>, <<1, 1, 0>>},
                      n \in {0, 2 * BlockSize + 1, 3 * BlockSize}}

SharedInit ==
    /\ src \in SeqsUpTo(Bytes, BlockSize + 1)
    /\ cache \in SharedCaches
    /\ ctxDone = FALSE
    /\ SigInit /\ LutInit /\ SyncInit /\ ApplyInit /\ HashIdle /\ PoolIdle /\ NoHistory

SharedNext == Next \/ CancelStep

SpecShared == SharedInit /\ [][SharedNext]_vars

\* The Signer's goroutine is between its select and its send, where it reads
\* a block and calls shash.Reset, shash.Write and shash.Sum on it.
SignerHashing == spc = "read" /\ cpos < Len(cache)

(***************************************************************************)
(* C32  Shared strong-hash instance.  With one hash.Hash passed to both    *)
(* Signatures and Sync and the caller running Signatures, LookUpTable and  *)
(* Sync in that order, the Matcher never calls the hash while the Signer   *)
(* may be calling it, also when LookUpTable has returned early on a        *)
(* cancelled context and Sync is started all the same.                     *)
(***************************************************************************)
HashNeverShared ==
    [][strongCalls' # strongCalls => ~SignerHashing]_vars

\* LookUpTable has returned on cancellation with a table that is not empty,
\* the Signer is still about to hash a block, and Sync has been started and
\* has left its loop at the first select.
HashNeverSharedWitness ==
    /\ lpc = "done" /\ lerr = "ctx" /\ ~NoRemote
    /\ SignerHashing
    /\ mpc \in {"exit", "done"}
    /\ Len(src) >= BlockSize

(***************************************************************************)
(* The applying specification: Apply fed by a caller of its own, which     *)
(* sends any operations, may close the channel, may cancel the context and *)
(* may stop sending at any point.  Only Apply is bound to keep running.    *)
(***************************************************************************)
\* Most operations the caller sends.
MaxOps == 3

CallerOps ==
    {BlockOperation(0, d, "nil") : d \in {<<0>>, <<0, 1>>}}
    \cup {BlockOperation(i, <<>>, "nil") : i \in 0..2}
    \cup {BlockOperation(0, <<>>, "op")}

\* ops <- op, by the caller
CallerSend ==
    /\ opsCh = <<>>
    /\ ~opsClosed
    /\ Len(opsLog) < MaxOps
    /\ \E op \in CallerOps : Send(op)

\* close(ops), by the caller
CallerClose ==
    /\ opsCh = <<>>
    /\ ~opsClosed
    /\ opsClosed' = TRUE
    /\ UNCHANGED <<opsCh, opsLog, payloads>>

ApplierInit ==
    /\ src = <<>>
    /\ cache \in SeqsUpTo(Bytes, BlockSize + 1)
    /\ ctxDone = FALSE
    /\ SigOff /\ LutOff /\ SyncOff /\ OpsChInit /\ ApplyInit /\ HashIdle /\ PoolIdle /\ NoHistory

ApplierNext ==
    \/ CallerSend /\ UNCHANGED <<envVars, sigVars, sigChVars, lutVars, syncVars, applyVars, hashVars, poolVars, histVars>>
    \/ CallerClose /\ UNCHANGED <<envVars, sigVars, sigChVars, lutVars, syncVars, applyVars, hashVars, poolVars, histVars>>
    \/ ApplyRecv /\ UNCHANGED <<envVars, sigVars, sigChVars, lutVars, syncVars, hashVars, poolVars, histVars>>
    \/ ApplyBody(TRUE) /\ UNCHANGED <<envVars, sigVars, sigChVars, lutVars, syncVars, opsChVars, hashVars, poolVars, histVars>>
    \/ CancelStep

SpecApply == ApplierInit /\ [][ApplierNext]_vars

FairApply == SpecApply /\ WF_vars(ApplyStep(TRUE))

(***************************************************************************)
(* C14  Apply writes the in-order concatenation of the resolved            *)
(* operations: a Literal contributes its Data, Copy(i) contributes         *)
(* C[i*BlockSize, min((i+1)*BlockSize, |C|)) (a short block at the end of  *)
(* C included).  While Apply runs and when it returns nil, the destination *)
(* holds exactly the operations handled so far; when it stops on an        *)
(* operation (its Error set, cancellation, a failed cache read) nothing of *)
(* that operation or of a later one is written, and an operation with      *)
(* Error set makes Apply return a non-nil error.  A failed write leaves at *)
(* most a part of that one operation's bytes.                              *)
(***************************************************************************)
ApplyConcatenates ==
    LET recv == Len(opsLog) - Len(opsCh)
        all  == ResolvedBytes(SubSeq(opsLog, 1, recv))
        prev == ResolvedBytes(SubSeq(opsLog, 1, recv - 1))
    IN  /\ apc = "range" => dst = all
        /\ apc = "body" => dst = prev
        /\ (apc = "done" /\ aret = "nil") => dst = all
        /\ (apc = "done" /\ aret \in {"op", "ctx", "cache"}) => dst = prev
        /\ (apc = "done" /\ aret = "write") =>
               IsPrefix(prev, dst) /\ IsPrefix(dst, all)
        /\ (apc = "done" /\ ao.Error # "nil") => aret \in {"op", "ctx"}
        /\ \A i \in 1..(recv - 1) : opsLog[i].Error = "nil"

\* Apply stopped on an error operation after a literal and the Copy of the
\* short last block of C.
ApplyConcatenatesWitness ==
    /\ apc = "done" /\ aret = "op"
    /\ Len(cache) = BlockSize + 1
    /\ Len(opsLog) = 3
    /\ IsLiteral(opsLog[1])
    /\ IsCopy(opsLog[2]) /\ opsLog[2].Index = 1
    /\ dst = opsLog[1].Data \o <<cache[Len(cache)]>>

(***************************************************************************)
(* C8  Apply eventually returns once the ops channel has been closed or    *)
(* the context has been cancelled; in particular when the context is       *)
(* cancelled while no further operation is sent and the channel stays open.*)
(***************************************************************************)
ApplyReturnsOnCloseOrCancel == (opsClosed \/ ctxDone) ~> (apc = "done")

(***************************************************************************)
(* The pooled scratch buffers: Signatures and Apply take their block       *)
(* buffer from bufferPool (a sync.Pool) and hand it back with a deferred   *)
(* Put.  Any number of invocations may run at once.                        *)
(***************************************************************************)
\* Most invocations of Signatures and Apply in one run.
MaxCalls == 3
\* Most blocks one invocation reads into its buffer.
MaxPoolReads == 1

\* one invocation: which function, where it is, the buffer it took from the
\* pool, and how many blocks it has read into it
Invocation(kind, pc, buf, n) == [kind |-> kind, pc |-> pc, buf |-> buf, n |-> n]

\* the invocation is running code that reads into its buffer: the Signatures
\* goroutine, or Apply between Get and return
Running(i) == calls[i].pc = "running"

\* bufferPool.Get(): any buffer of the pool, taken out of it, or a new one
\* from New (Get may treat the pool as empty)
PoolGet(b) ==
    \/ /\ \E k \in 1..Len(pool) :
             /\ pool[k] = b
             /\ pool' = [j \in 1..(Len(pool) - 1) |->
                            IF j < k THEN pool[j] ELSE pool[j + 1]]
       /\ UNCHANGED nbuf
    \/ /\ b = nbuf + 1
       /\ nbuf' = b
       /\ UNCHANGED pool

\* Signatures: bfp := bufferPool.Get().(*[]byte); buffer := *bfp;
\* defer bufferPool.Put(bfp)
SignaturesCall ==
    /\ Len(calls) < MaxCalls
    /\ \E b \in 1..(nbuf + 1) :
          /\ PoolGet(b)
          /\ calls' = Append(calls, Invocation("Signatures", "called", b, 0))

\* Signatures: go func() { ... }(); return c, nil.  The goroutine starts,
\* the function returns and its deferred Put hands the buffer back.
SignaturesReturn(i) ==
    /\ calls[i].kind = "Signatures"
    /\ calls[i].pc = "called"
    /\ calls' = [calls EXCEPT ![i].pc = "running"]
    /\ pool' = Append(pool, calls[i].buf)
    /\ UNCHANGED nbuf

\* the Signatures goroutine: n, err := r.Read(buffer), a block is signed
SignaturesRead(i) ==
    /\ calls[i].kind = "Signatures"
    /\ Running(i)
    /\ calls[i].n < MaxPoolReads
    /\ calls' = [calls EXCEPT ![i].n = @ + 1]
    /\ UNCHANGED <<pool, nbuf>>

\* the Signatures goroutine: io.EOF or cancellation, close(c)
SignaturesDone(i) ==
    /\ calls[i].kind = "Signatures"
    /\ Running(i)
    /\ calls' = [calls EXCEPT ![i].pc = "done"]
    /\ UNCHANGED <<pool, nbuf>>

\* Apply: bfp := bufferPool.Get().(*[]byte); buffer := *bfp;
\* defer bufferPool.Put(bfp); the loop over ops starts
ApplyCall ==
    /\ Len(calls) < MaxCalls
    /\ \E b \in 1..(nbuf + 1) :
          /\ PoolGet(b)
          /\ calls' = Append(calls, Invocation("Apply", "running", b, 0))

\* Apply: n, err := cache.ReadAt(buffer, ...) for a Copy
ApplyReadAt(i) ==
    /\ calls[i].kind = "Apply"
    /\ Running(i)
    /\ calls[i].n < MaxPoolReads
    /\ calls' = [calls EXCEPT ![i].n = @ + 1]
    /\ UNCHANGED <<pool, nbuf>>

\* Apply returns (ops closed, cancellation or an error): the deferred Put
ApplyReturn(i) ==
    /\ calls[i].kind = "Apply"
    /\ Running(i)
    /\ calls' = [calls EXCEPT ![i].pc = "done"]
    /\ pool' = Append(pool, calls[i].buf)
    /\ UNCHANGED nbuf

PoolInit ==
    /\ src = <<>> /\ cache = <<>> /\ ctxDone = FALSE
    /\ SigOff /\ LutOff /\ SyncOff /\ OpsChInit /\ ApplyOff /\ HashIdle
    /\ PoolIdle /\ NoHistory

PoolNext ==
    \/ SignaturesCall /\ UNCHANGED <<envVars, sigVars, sigChVars, lutVars, syncVars, opsChVars, applyVars, hashVars, histVars>>
    \/ \E i \in 1..Len(calls) : SignaturesReturn(i) /\ UNCHANGED <<envVars, sigVars, sigChVars, lutVars, syncVars, opsChVars, applyVars, hashVars, histVars>>
    \/ \E i \in 1..Len(calls) : SignaturesRead(i) /\ UNCHANGED <<envVars, sigVars, sigChVars, lutVars, syncVars, opsChVars, applyVars, hashVars, histVars>>
    \/ \E i \in 1..Len(calls) : SignaturesDone(i) /\ UNCHANGED <<envVars, sigVars, sigChVars, lutVars, syncVars, opsChVars, applyVars, hashVars, histVars>>
    \/ ApplyCall /\ UNCHANGED <<envVars, sigVars, sigChVars, lutVars, syncVars, opsChVars, applyVars, hashVars, histVars>>
    \/ \E i \in 1..Len(calls) : ApplyReadAt(i) /\ UNCHANGED <<envVars, sigVars, sigChVars, lutVars, syncVars, opsChVars, applyVars, hashVars, histVars>>
    \/ \E i \in 1..Len(calls) : ApplyReturn(i) /\ UNCHANGED <<envVars, sigVars, sigChVars, lutVars, syncVars, opsChVars, applyVars, hashVars, histVars>>

SpecPool == PoolInit /\ [][PoolNext]_vars

(***************************************************************************)
(* C21  No scratch buffer is shared between running stages: the buffer a   *)
(* running Signatures goroutine reads into is never held at the same time  *)
(* by another running Signatures goroutine or by a running Apply, for any  *)
(* number of concurrent invocations.                                       *)
(***************************************************************************)
NoBufferShared ==
    \A i, j \in 1..Len(calls) :
        (i # j /\ Running(i) /\ Running(j)
              /\ "Signatures" \in {calls[i].kind, calls[j].kind})
        => calls[i].buf # calls[j].buf

=============================================================================
